---- MODULE Spec2Model ----
(***************************************************************************)
(* Event-study scripts of the breach dissertation repository.              *)
(*                                                                         *)
(* Numbers.  Calendar dates are day numbers.  Reals are fixed point with   *)
(* One = 1.0, so a percentage p is held as p * One and round(x, 4) is a    *)
(* rounding to multiples of One / 10^4.  Daily returns and prices are read *)
(* from the input tables in hundredths (ret = 2 is 0.02) and whole units.  *)
(* A missing value (None, NaN, NaT) is the empty sequence Null and a       *)
(* present value v is <<v>>.                                               *)
(***************************************************************************)
EXTENDS Integers, Sequences, FiniteSets, TLC

VARIABLES script, market, breach_df, idx, pc,
          event_returns, volatility_metrics, stock_metrics,
          stock_cache, updates_made,
          analysis_df, firm_industries, firm_returns, results,
          base_df, merged_df,
          required_present, returncode, executed, success, exit_status,
          breach_history

vars == <<script, market, breach_df, idx, pc,
          event_returns, volatility_metrics, stock_metrics,
          stock_cache, updates_made,
          analysis_df, firm_industries, firm_returns, results,
          base_df, merged_df,
          required_present, returncode, executed, success, exit_status,
          breach_history>>

(* The state of run_all.py *)
pipeline == <<required_present, returncode, executed, success, exit_status>>

(* What the loops only read *)
inputs == <<script, market, breach_df, stock_cache,
            analysis_df, firm_industries, firm_returns, base_df>>

-----------------------------------------------------------------------------
(* Bounds of the model *)

MaxEvents == 2
MaxRet == 2
EvDay == 100

One == 10^7

-----------------------------------------------------------------------------
(* Values *)

Null == <<>>
Some(v) == <<v>>
IsNull(x) == x = <<>>
NotNull(x) == x # <<>>
Val(x) == x[1]

Min(a, b) == IF a <= b THEN a ELSE b
Max(a, b) == IF a >= b THEN a ELSE b
Abs(a) == IF a < 0 THEN 0 - a ELSE a

(* Division rounding to the nearest integer, halves to the even neighbour  *)
(* (numpy and Python round halves to even).  d > 0.                        *)
RoundDiv(n, d) ==
  LET q == n \div d
      r == n % d
  IN  IF 2 * r < d THEN q
      ELSE IF 2 * r > d THEN q + 1
      ELSE IF q % 2 = 0 THEN q ELSE q + 1

(* round(x, places) on a fixed-point real *)
Round(x, places) ==
  LET g == One \div (10 ^ places) IN RoundDiv(x, g) * g

(* A return read from a table (hundredths) as a fixed-point fraction *)
Frac(k) == k * (One \div 100)

RECURSIVE ISqrtBetween(_, _, _)
ISqrtBetween(x, lo, hi) ==
  IF lo >= hi THEN lo
  ELSE LET mid == (lo + hi + 1) \div 2
       IN  IF mid * mid <= x THEN ISqrtBetween(x, mid, hi)
           ELSE ISqrtBetween(x, lo, mid - 1)

(* floor of the square root, 0 <= x < 2^30 *)
ISqrt(x) == ISqrtBetween(x, 0, 32767)

RECURSIVE SumSeq(_)
SumSeq(s) == IF s = <<>> THEN 0 ELSE Head(s) + SumSeq(Tail(s))

(* The sequence s[a+1 .. b] of a zero-based slice iloc[a:b] *)
ILoc(s, a, b) == SubSeq(s, a + 1, Min(b, Len(s)))

(* Values of a column with the missing ones dropped (skipna) *)
DropNa(col) == SelectSeq(col, NotNull)
Vals(col) == [i \in 1..Len(DropNa(col)) |-> Val(DropNa(col)[i])]

-----------------------------------------------------------------------------
(* Input tables.  One listed ticker, "A", has a daily series; ticker "B"   *)
(* and ticker "E" have no rows at all (not in CRSP, nothing downloaded). A *)
(* row of the series holds what the scripts read: CRSP ret and vol, the    *)
(* market vwretd merged on date, and the yfinance Close.                   *)

Tickers == {"A", "B", "E"}

(* Tickers for which the yfinance download raises instead of returning an  *)
(* empty table                                                             *)
RaisingTickers == {"E"}
NoTicker == "nan"

Shapes ==
  { [lo |-> -12, hi |-> 32, hole |-> "none"],
    [lo |-> -12, hi |-> 32, hole |-> "event"],
    [lo |-> -45, hi |-> 45, hole |-> "weekend"],
    [lo |-> -12, hi |-> 3, hole |-> "none"],
    [lo |-> -12, hi |-> 2, hole |-> "event"],
    [lo |-> -12, hi |-> 0, hole |-> "none"],
    [lo |-> -3, hi |-> 3, hole |-> "none"],
    [lo |-> -3, hi |-> 10, hole |-> "none"],
    [lo |-> -65, hi |-> -52, hole |-> "none"],
    [lo |-> -60, hi |-> 60, hole |-> "middle"],
    [lo |-> -72, hi |-> 72, hole |-> "far"],
    [lo |-> -8, hi |-> 1, hole |-> "none"] }

Patterns == {"flat", "saw", "same", "retpre", "retpost", "mktgap"}

(* A ticker listed on the event day: its first price is the event day's *)
LateListing == [lo |-> 0, hi |-> 12, hole |-> "none"]

(* The shapes the yfinance scripts are run on *)
StockShapes ==
  { sh \in Shapes : ~(sh.hi \in {1, 2, 3} /\ sh.lo < -3) /\ sh.hole # "weekend" }
    \cup {LateListing}

(* The shape and pattern pairs 20 is run on: every shape with the "saw"    *)
(* returns, the other patterns on the two long shapes they matter for      *)
(* Series with 9, 10 or 11 rows on either side of the event day: the row   *)
(* counts around the minimum of calculate_volatility                       *)
BoundaryShapes ==
  { [lo |-> -10, hi |-> 9, hole |-> "none"], [lo |-> -9, hi |-> 10, hole |-> "none"] }

(* Ten days of 0.00 and five days of 0.01 from the event day on, against a *)
(* market return of 0.00                                                   *)
StepSeries == [sh |-> [lo |-> -10, hi |-> 4, hole |-> "none"], p |-> "step"]

ShapePatterns20 ==
  { sp \in [sh : Shapes, p : Patterns] :
      \/ sp.p = "saw" /\ ~(sp.sh.lo = -3 /\ sp.sh.hi = 10) /\ sp.sh.hi # -52
      \/ sp.p # "saw" /\ sp.sh.lo = -12 /\ sp.sh.hi = 32 /\ sp.sh.hole = "none"
      \/ sp.p = "mktgap" /\ sp.sh.hole = "weekend" }
    \cup {StepSeries}
    \cup { [sh |-> sh, p |-> "saw"] : sh \in BoundaryShapes }

ShapeDays(sh) ==
  { d \in (EvDay + sh.lo)..(EvDay + sh.hi) :
      CASE sh.hole = "event" -> d # EvDay
        [] sh.hole = "weekend" -> d % 7 \notin {5, 6}
        [] sh.hole = "middle" -> Abs(d - EvDay) >= 55
        [] sh.hole = "far" -> Abs(d - EvDay) >= 65
        [] OTHER -> TRUE }

Saw(d) == (d % (2 * MaxRet + 1)) - MaxRet

RowOf(p, d) ==
  [ ret |-> CASE p = "flat" -> Some(1)
              [] p = "step" -> IF d < EvDay THEN Some(0) ELSE Some(1)
              [] p = "retpre" -> IF d < EvDay THEN Null ELSE Some(Saw(d))
              [] p = "retpost" -> IF d >= EvDay THEN Null ELSE Some(Saw(d))
              [] OTHER -> Some(Saw(d)),
    vwretd |-> CASE p \in {"flat", "step"} -> Some(0)
                 [] p = "same" -> Some(Saw(d))
                 [] p = "mktgap" -> IF d % 3 = 0 THEN Null ELSE Some((d % 3) - 1)
                 [] OTHER -> Some((d % 3) - 1),
    vol |-> IF p = "mktgap" /\ d % 2 = 0 THEN Null ELSE Some(1 + (d % 4)),
    Close |-> 20 + ((3 * d) % 7) ]

SeriesOf(sh, p) == [d \in ShapeDays(sh) |-> RowOf(p, d)]

NoSeries == [d \in {} |-> RowOf("flat", d)]

(* The rows breach_df can hold.  For 20 a ticker whose download raises is  *)
(* one more ticker without CRSP rows; the yfinance scripts see the event   *)
(* of ticker "A" on the day itself.                                        *)
EventOptions ==
  { [Map |-> "A", breach_date |-> Some(EvDay)],
    [Map |-> "A", breach_date |-> Some(EvDay + 1)],
    [Map |-> "B", breach_date |-> Some(EvDay)],
    [Map |-> "E", breach_date |-> Some(EvDay)],
    [Map |-> NoTicker, breach_date |-> Some(EvDay)],
    [Map |-> "A", breach_date |-> Null] }

EventOptions20 == { e \in EventOptions : e.Map # "E" }
EventOptionsStock == { e \in EventOptions : e.breach_date # Some(EvDay + 1) }

Batches(options) == UNION { [1..n -> options] : n \in 1..MaxEvents }

(* The rows of a table with date in [a, b], in date order *)
DatesIn(tbl, a, b) ==
  SelectSeq([i \in 1..Max(0, b - a + 1) |-> a + i - 1],
            LAMBDA d : d \in DOMAIN tbl)

(* Zero-based position of the first smallest |date - target| (idxmin,      *)
(* argmin: the first occurrence of the minimum)                            *)
ArgMinFirst(dates, target) ==
  CHOOSE i \in 0..(Len(dates) - 1) :
    /\ \A j \in 0..(Len(dates) - 1) :
         Abs(dates[i + 1] - target) <= Abs(dates[j + 1] - target)
    /\ \A j \in 0..(i - 1) :
         Abs(dates[j + 1] - target) > Abs(dates[i + 1] - target)

-----------------------------------------------------------------------------
(* scripts/20_final_comprehensive_merge.py *)

(* crsp_market with the market return not subtracted in abnormal_ret *)
MergeMarketRaw(tbl) ==
  [d \in DOMAIN tbl |->
     [ date |-> d,
       ret |-> tbl[d].ret,
       vwretd |-> tbl[d].vwretd,
       vol |-> tbl[d].vol,
       abnormal_ret |->
         IF NotNull(tbl[d].ret) /\ NotNull(tbl[d].vwretd)
         THEN Some(Frac(Val(tbl[d].ret)) * 100)
         ELSE Null ]]

(* crsp_market with abnormal_ret left as a fraction, not a percentage *)
MergeMarketFraction(tbl) ==
  [d \in DOMAIN tbl |->
     [ date |-> d,
       ret |-> tbl[d].ret,
       vwretd |-> tbl[d].vwretd,
       vol |-> tbl[d].vol,
       abnormal_ret |->
         IF NotNull(tbl[d].ret) /\ NotNull(tbl[d].vwretd)
         THEN Some(Frac(Val(tbl[d].ret)) - Frac(Val(tbl[d].vwretd)))
         ELSE Null ]]

(* crsp_market: the CRSP rows of a ticker with the market return merged on *)
(* date and abnormal_ret = (ret - vwretd) * 100, missing when either is    *)
MergeMarket(tbl) ==
  [d \in DOMAIN tbl |->
     [ date |-> d,
       ret |-> tbl[d].ret,
       vwretd |-> tbl[d].vwretd,
       vol |-> tbl[d].vol,
       abnormal_ret |->
         IF NotNull(tbl[d].ret) /\ NotNull(tbl[d].vwretd)
         THEN Some((Frac(Val(tbl[d].ret)) - Frac(Val(tbl[d].vwretd))) * 100)
         ELSE Null ]]

(* crsp_data[crsp_data['ticker'] == ticker] *)
CrspMarket(ticker) ==
  MergeMarket(IF ticker \in DOMAIN market THEN market[ticker] ELSE NoSeries)

(* Series.sum(): the missing values are skipped *)
ColSum(rows, col) == SumSeq(Vals([i \in 1..Len(rows) |-> rows[i][col]]))

(* Simple interest in place of compounding: level * (1 + the sum) *)
CompoundSimple(level, ks) == level + RoundDiv(level * SumSeq(ks), 100)

(* (1 + column).prod(): compounding of the present values, in fixed point  *)
RECURSIVE Compound(_, _)
Compound(level, ks) ==
  IF ks = <<>> THEN level
  ELSE Compound(level + RoundDiv(level * Head(ks), 100), Tail(ks))

(* 1 + the arithmetic sum of the column in place of the product *)
ColProdAsSum(rows, col) ==
  One + Frac(SumSeq(Vals([i \in 1..Len(rows) |-> rows[i][col]])))

ColProd(rows, col) == Compound(One, Vals([i \in 1..Len(rows) |-> rows[i][col]]))

(* The +/-50 day window of the ticker's rows, sorted by date *)
EventWindow(ticker_data, event_date) ==
  LET ds == DatesIn(ticker_data, event_date - 50, event_date + 50)
  IN  [i \in 1..Len(ds) |-> ticker_data[ds[i]]]

EventPos(event_window, event_date) ==
  ArgMinFirst([i \in 1..Len(event_window) |-> event_window[i].date], event_date)

(* post_5d one position short: 5 observations from the event position *)
Post5dFiveRows(event_window, event_pos) == Min(Len(event_window) - 1, event_pos + 4)

Post5d(event_window, event_pos) == Min(Len(event_window) - 1, event_pos + 5)
Post30d(event_window, event_pos) == Min(Len(event_window) - 1, event_pos + 30)

(* calculate_event_returns with the 30-day metrics left out when fewer     *)
(* than 30 days follow the event                                           *)
calculate_event_returns_partial(ticker, event_date, crsp_data) ==
  LET event_window == EventWindow(crsp_data, event_date)
  IN  IF DOMAIN crsp_data = {} \/ Len(event_window) < 10 THEN Null
      ELSE
        LET event_pos == EventPos(event_window, event_date)
            post_5d == Post5d(event_window, event_pos)
            w5 == ILoc(event_window, event_pos, post_5d + 1)
            w30 == ILoc(event_window, event_pos, event_pos + 30 + 1)
            full == Len(event_window) - 1 >= event_pos + 30
        IN  IF post_5d <= event_pos THEN Null
            ELSE Some([ car_5d |-> Some(Round(ColSum(w5, "abnormal_ret"), 4)),
                        car_30d |-> IF full THEN Some(Round(ColSum(w30, "abnormal_ret"), 4))
                                    ELSE Null,
                        bhar_5d |-> Some(Round(((ColProd(w5, "ret") - One)
                                      - (ColProd(w5, "vwretd") - One)) * 100, 4)),
                        bhar_30d |-> IF full
                                     THEN Some(Round(((ColProd(w30, "ret") - One)
                                            - (ColProd(w30, "vwretd") - One)) * 100, 4))
                                     ELSE Null,
                        has_crsp_data |-> TRUE ])

(* The post window is rejected unless the whole 5-day horizon is there *)
PostInsufficientFullHorizon(post_5d, event_pos) == post_5d < event_pos + 5

(* if post_5d <= event_pos: return None *)
PostInsufficient(post_5d, event_pos) == post_5d <= event_pos

(* The dict calculate_event_returns returns, Null for None *)
calculate_event_returns(ticker, event_date, crsp_data) ==
  LET ticker_data == crsp_data
      event_window == EventWindow(ticker_data, event_date)
  IN  IF DOMAIN ticker_data = {} THEN Null
      ELSE IF Len(event_window) < 10 THEN Null
      ELSE
        LET event_pos == EventPos(event_window, event_date)
            post_5d == Post5d(event_window, event_pos)
            post_30d == Post30d(event_window, event_pos)
            w5 == ILoc(event_window, event_pos, post_5d + 1)
            w30 == ILoc(event_window, event_pos, post_30d + 1)
            car_5d == ColSum(w5, "abnormal_ret")
            car_30d == ColSum(w30, "abnormal_ret")
            bhar_5d == (ColProd(w5, "ret") - One) - (ColProd(w5, "vwretd") - One)
            bhar_30d == (ColProd(w30, "ret") - One) - (ColProd(w30, "vwretd") - One)
        IN  IF PostInsufficient(post_5d, event_pos) THEN Null
            ELSE Some([ car_5d |-> Some(Round(car_5d, 4)),
                        car_30d |-> Some(Round(car_30d, 4)),
                        bhar_5d |-> Some(Round(bhar_5d * 100, 4)),
                        bhar_30d |-> Some(Round(bhar_30d * 100, 4)),
                        has_crsp_data |-> TRUE ])

NoCrspRecord ==
  [ car_5d |-> Null, car_30d |-> Null, bhar_5d |-> Null, bhar_30d |-> Null,
    has_crsp_data |-> FALSE ]

(* The record the event_returns loop appends for one row of breach_df *)
EventReturnsRecord(row) ==
  IF row.Map = NoTicker \/ IsNull(row.breach_date) THEN NoCrspRecord
  ELSE LET returns == calculate_event_returns(row.Map, Val(row.breach_date),
                                              CrspMarket(row.Map))
       IN  IF NotNull(returns) THEN Val(returns) ELSE NoCrspRecord

(* One iteration of `for idx, row in breach_df.iterrows()` (lines 119-144) *)
EventReturnsStep ==
  /\ script = "20"
  /\ pc = "event_returns"
  /\ idx <= Len(breach_df)
  /\ event_returns' = Append(event_returns, EventReturnsRecord(breach_df[idx]))
  /\ idx' = idx + 1
  /\ UNCHANGED <<inputs, merged_df, breach_history, pipeline, pc, volatility_metrics, stock_metrics, updates_made, results>>

(* The loop is over: event_returns_df is built and its columns are copied  *)
(* to breach_df (lines 148-154), then the next loop starts.  From an empty *)
(* list pd.DataFrame has no columns and event_returns_df[col] raises       *)
(* KeyError: the script ends with a traceback.                             *)
EventReturnsDone ==
  /\ script = "20"
  /\ pc = "event_returns"
  /\ idx > Len(breach_df)
  /\ pc' = IF event_returns = <<>> THEN "raised" ELSE "volatility"
  /\ idx' = 1
  /\ UNCHANGED <<inputs, merged_df, breach_history, pipeline, event_returns, volatility_metrics, stock_metrics, updates_made, results>>

(* Series.std(): sample standard deviation (ddof = 1) of the present       *)
(* values, missing when fewer than two are present.  With n values of sum  *)
(* s1 and sum of squares s2 the variance is (n*s2 - s1^2) / (n*(n-1)); the  *)
(* result is the square root of variance * scale^2, in units of One/unit.  *)
StdOf(col, scale2, unit) ==
  LET ks == Vals(col)
      n == Len(ks)
      s1 == SumSeq(ks)
      s2 == SumSeq([i \in 1..n |-> ks[i] * ks[i]])
  IN  IF n < 2 THEN Null
      ELSE Some(ISqrt((scale2 * (n * s2 - s1 * s1)) \div (n * (n - 1)))
                  * (One \div unit))

Column(rows, col) == [i \in 1..Len(rows) |-> rows[i][col]]

(* pre_window['ret'].std() * np.sqrt(252) * 100, the returns in hundredths *)
RetVol(rows) == StdOf(Column(rows, "ret"), 252 * 100, 10)

(* window['vol'].std() if window['vol'].notna().sum() > 5 else None *)
VolVol(rows) ==
  IF Len(DropNa(Column(rows, "vol"))) > 5
  THEN StdOf(Column(rows, "vol"), 10000, 100)
  ELSE Null

RoundOpt(x, places) == IF NotNull(x) THEN Some(Round(Val(x), places)) ELSE Null

RowsIn(ticker_data, a, b) ==
  LET ds == DatesIn(ticker_data, a, b)
  IN  [i \in 1..Len(ds) |-> ticker_data[ds[i]]]

(* volatility_change with a missing volatility taken as 0 *)
VolatilityChangeZeroFill(ret_vol_pre, ret_vol_post) ==
  Some(Round((IF NotNull(ret_vol_post) THEN Val(ret_vol_post) ELSE 0)
               - (IF NotNull(ret_vol_pre) THEN Val(ret_vol_pre) ELSE 0), 4))

(* round(ret_vol_post - ret_vol_pre, 4) if both are present else None *)
VolatilityChange(ret_vol_pre, ret_vol_post) ==
  IF NotNull(ret_vol_pre) /\ NotNull(ret_vol_post)
  THEN Some(Round(Val(ret_vol_post) - Val(ret_vol_pre), 4))
  ELSE Null

(* The minimum taken as 9 rows *)
TooFewRowsNine(pre_window, post_window) == Len(pre_window) < 9 \/ Len(post_window) < 9

(* if len(pre_window) < 10 or len(post_window) < 10: return None *)
TooFewRows(pre_window, post_window) == Len(pre_window) < 10 \/ Len(post_window) < 10

(* The dict calculate_volatility returns (window = 30), Null for None *)
calculate_volatility(ticker, breach_date, crsp_data) ==
  LET ticker_data == crsp_data
      pre_window == RowsIn(ticker_data, breach_date - (30 + 10), breach_date - 1)
      post_window == RowsIn(ticker_data, breach_date, breach_date + 30)
      ret_vol_pre == RetVol(pre_window)
      ret_vol_post == RetVol(post_window)
  IN  IF DOMAIN ticker_data = {} THEN Null
      ELSE IF TooFewRows(pre_window, post_window) THEN Null
      ELSE Some([ return_volatility_pre |-> RoundOpt(ret_vol_pre, 4),
                  return_volatility_post |-> RoundOpt(ret_vol_post, 4),
                  volume_volatility_pre |-> RoundOpt(VolVol(pre_window), 2),
                  volume_volatility_post |-> RoundOpt(VolVol(post_window), 2),
                  volatility_change |-> VolatilityChange(ret_vol_pre, ret_vol_post) ])

NoVolatilityRecord ==
  [ return_volatility_pre |-> Null, return_volatility_post |-> Null,
    volume_volatility_pre |-> Null, volume_volatility_post |-> Null,
    volatility_change |-> Null ]

(* The record the volatility_metrics loop appends for one row of breach_df *)
VolatilityRecord(row) ==
  IF row.Map = NoTicker \/ IsNull(row.breach_date) THEN NoVolatilityRecord
  ELSE LET vol_metrics == calculate_volatility(row.Map, Val(row.breach_date),
                                               CrspMarket(row.Map))
       IN  IF NotNull(vol_metrics) THEN Val(vol_metrics) ELSE NoVolatilityRecord

(* One iteration of the volatility loop (lines 264-285) *)
VolatilityStep ==
  /\ script = "20"
  /\ pc = "volatility"
  /\ idx <= Len(breach_df)
  /\ volatility_metrics' = Append(volatility_metrics, VolatilityRecord(breach_df[idx]))
  /\ idx' = idx + 1
  /\ UNCHANGED <<inputs, merged_df, breach_history, pipeline, pc, event_returns, stock_metrics, updates_made, results>>

VolatilityDone ==
  /\ script = "20"
  /\ pc = "volatility"
  /\ idx > Len(breach_df)
  /\ pc' = "done"
  /\ UNCHANGED <<inputs, merged_df, breach_history, pipeline, idx, event_returns, volatility_metrics, stock_metrics, updates_made, results>>

-----------------------------------------------------------------------------
(* The yfinance scripts: 07_add_stock_data.py, 09_add_stock_data_robust.py *)
(* and 12_recover_delisted_stocks.py                                       *)

(* stock.history(): the ticker's rows, date and Close *)
History(ticker) ==
  LET tbl == IF ticker \in DOMAIN market THEN market[ticker] ELSE NoSeries
  IN  [d \in DOMAIN tbl |-> [date |-> d, Close |-> tbl[d].Close]]

NoStockRecord ==
  [ stock_price_at_breach |-> Null, return_5d_pct |-> Null,
    return_30d_pct |-> Null, has_stock_data |-> FALSE ]

(* Python's None where a dict was expected *)
PyNone == [none |-> TRUE]
IsPyNone(r) == DOMAIN r = {"none"}

(* ((post - pre) / pre) * 100 *)
PctChange(post, pre) == RoundDiv((post - pre) * One, pre) * 100

(* Index.get_indexer([target], method='nearest')[0]: the position of the   *)
(* nearest value, tied distances broken by preferring the larger value     *)
NearestIndexer(dates, target) ==
  CHOOSE i \in 0..(Len(dates) - 1) :
    /\ \A j \in 0..(Len(dates) - 1) :
         Abs(dates[i + 1] - target) <= Abs(dates[j + 1] - target)
    /\ \A j \in (i + 1)..(Len(dates) - 1) :
         Abs(dates[j + 1] - target) > Abs(dates[i + 1] - target)

Dates(rows) == [i \in 1..Len(rows) |-> rows[i].date]

(* 07: hist = stock.history(start = breach_date - 40, end = breach_date +  *)
(* 40), the end date excluded                                              *)
Hist07(ticker, breach_date) ==
  RowsIn(History(ticker), breach_date - (30 + 10), breach_date + (30 + 10) - 1)

BreachIdx07(hist, breach_date) == NearestIndexer(Dates(hist), breach_date)
Pre5dIdx07(breach_idx) == Max(0, breach_idx - 5)
Post5dIdx07(hist, breach_idx) == Min(Len(hist) - 1, breach_idx + 5)
Post30dIdx07(hist, breach_idx) == Min(Len(hist) - 1, breach_idx + 30)

(* 07 get_breach_returns once hist is downloaded (lines 32-62): a dict, or *)
(* PyNone when the history is empty                                        *)
breach_returns_07(hist, breach_date) ==
  LET breach_idx == BreachIdx07(hist, breach_date)
      pre_5d_price == hist[Pre5dIdx07(breach_idx) + 1].Close
      post_5d_price == hist[Post5dIdx07(hist, breach_idx) + 1].Close
      post_30d_price == hist[Post30dIdx07(hist, breach_idx) + 1].Close
  IN  IF hist = <<>> THEN PyNone
      ELSE [ stock_price_at_breach |-> Some(hist[breach_idx + 1].Close * One),
             return_5d_pct |-> Some(PctChange(post_5d_price, pre_5d_price)),
             return_30d_pct |-> Some(PctChange(post_30d_price, pre_5d_price)),
             has_stock_data |-> TRUE ]

(* 07 get_breach_returns: the download raises, or the dict of the history *)
get_breach_returns_07(ticker, breach_date) ==
  IF ticker \in RaisingTickers THEN NoStockRecord
  ELSE breach_returns_07(Hist07(ticker, breach_date), breach_date)

(* What the 07 loop appends for one row of df *)
StockRecord07(row) ==
  IF row.Map = NoTicker \/ IsNull(row.breach_date) THEN NoStockRecord
  ELSE get_breach_returns_07(row.Map, Val(row.breach_date))

(* One iteration of the 07 loop (lines 80-100) *)
StockStep07 ==
  /\ script = "07"
  /\ pc = "stock"
  /\ idx <= Len(breach_df)
  /\ stock_metrics' = Append(stock_metrics, StockRecord07(breach_df[idx]))
  /\ idx' = idx + 1
  /\ UNCHANGED <<inputs, merged_df, breach_history, pipeline, pc, event_returns, volatility_metrics, updates_made, results>>

(* 08: hist = stock.history(start = breach_date - 50, end = breach_date +  *)
(* 50), the end date excluded                                              *)
Hist08(ticker, breach_date) ==
  RowsIn(History(ticker), breach_date - (30 + 20), breach_date + (30 + 20) - 1)

BreachIdx08(hist, breach_date) == ArgMinFirst(Dates(hist), breach_date)
PreIdx08(breach_idx) == Max(0, breach_idx - 7)
Post5dIdx08(hist, breach_idx) == Min(Len(hist) - 1, breach_idx + 7)
Post30dIdx08(hist, breach_idx) == Min(Len(hist) - 1, breach_idx + 30)

(* 08 get_breach_returns once hist is downloaded (lines 36-83) *)
breach_returns_08(hist, breach_date) ==
  LET breach_idx == BreachIdx08(hist, breach_date)
      breach_price == hist[breach_idx + 1].Close
      pre_price == hist[PreIdx08(breach_idx) + 1].Close
      post_5d_price == hist[Post5dIdx08(hist, breach_idx) + 1].Close
      post_30d_price == hist[Post30dIdx08(hist, breach_idx) + 1].Close
  IN  IF hist = <<>> \/ Len(hist) < 10 THEN NoStockRecord
      ELSE IF breach_idx < 10 \/ breach_idx > Len(hist) - 10 THEN NoStockRecord
      ELSE [ stock_price_at_breach |-> Some(Round(breach_price * One, 2)),
             return_5d_pct |-> Some(Round(PctChange(post_5d_price, pre_price), 2)),
             return_30d_pct |-> Some(Round(PctChange(post_30d_price, pre_price), 2)),
             has_stock_data |-> TRUE ]

(* 08 get_breach_returns: the download raises, or the dict of the history *)
get_breach_returns_08(ticker, breach_date) ==
  IF ticker \in RaisingTickers THEN NoStockRecord
  ELSE breach_returns_08(Hist08(ticker, breach_date), breach_date)

(* What the 08 loop appends for one row of df *)
StockRecord08(row) ==
  IF row.Map = NoTicker \/ IsNull(row.breach_date) THEN NoStockRecord
  ELSE get_breach_returns_08(row.Map, Val(row.breach_date))

(* One iteration of the 08 loop (lines 102-125) *)
StockStep08 ==
  /\ script = "08"
  /\ pc = "stock"
  /\ idx <= Len(breach_df)
  /\ stock_metrics' = Append(stock_metrics, StockRecord08(breach_df[idx]))
  /\ idx' = idx + 1
  /\ UNCHANGED <<inputs, merged_df, breach_history, pipeline, pc, event_returns, volatility_metrics, updates_made, results>>

(* 09: the keys of stock_cache: the tickers of df whose full history was   *)
(* downloaded and is not empty                                             *)
StockCache09(df) ==
  { t \in {df[i].Map : i \in 1..Len(df)} \ {NoTicker} :
      t \notin RaisingTickers /\ DOMAIN History(t) # {} }

(* The window of 09 widened to 90 days either side *)
BreachWindow09Wide(hist, breach_date) == RowsIn(hist, breach_date - 90, breach_date + 90)

BreachWindow09(hist, breach_date) == RowsIn(hist, breach_date - 60, breach_date + 60)
BreachIdx09(breach_window, breach_date) == ArgMinFirst(Dates(breach_window), breach_date)

PreData09(breach_window, breach_idx) ==
  SelectSeq(breach_window, LAMBDA r : r.date < breach_window[breach_idx + 1].date)
PostData09(breach_window, breach_idx) ==
  SelectSeq(breach_window, LAMBDA r : r.date > breach_window[breach_idx + 1].date)

(* 09 lines 121 and 124: the positions in post_data of the two post prices *)
Post5dPos09(post_data) == Min(4, Len(post_data) - 1)
Post30dPos09(post_data) == Min(20, Len(post_data) - 1)

(* 09 get_breach_returns once hist is read from the cache (lines 68-138) *)
breach_returns_09(hist, breach_date) ==
  LET breach_window == BreachWindow09(hist, breach_date)
      breach_idx == BreachIdx09(breach_window, breach_date)
      pre_data == PreData09(breach_window, breach_idx)
      post_data == PostData09(breach_window, breach_idx)
      pre_price == pre_data[Len(pre_data) - 5 + 1].Close
      post_5d_price == post_data[Post5dPos09(post_data) + 1].Close
      post_30d_price == post_data[Post30dPos09(post_data) + 1].Close
      breach_price == breach_window[breach_idx + 1].Close
  IN  IF Len(breach_window) < 10 THEN NoStockRecord
      ELSE IF Len(pre_data) < 5 THEN NoStockRecord
      ELSE IF Len(post_data) < 2 THEN NoStockRecord
      ELSE [ stock_price_at_breach |-> Some(Round(breach_price * One, 2)),
             return_5d_pct |-> Some(Round(PctChange(post_5d_price, pre_price), 2)),
             return_30d_pct |-> Some(Round(PctChange(post_30d_price, pre_price), 2)),
             has_stock_data |-> TRUE ]

(* 09 get_breach_returns *)
get_breach_returns_09(ticker, breach_date) ==
  IF ticker \notin stock_cache THEN NoStockRecord
  ELSE breach_returns_09(History(ticker), breach_date)

StockRecord09(row) ==
  IF row.Map = NoTicker \/ IsNull(row.breach_date) THEN NoStockRecord
  ELSE get_breach_returns_09(row.Map, Val(row.breach_date))

(* One iteration of the 09 loop (lines 154-174) *)
StockStep09 ==
  /\ script = "09"
  /\ pc = "stock"
  /\ idx <= Len(breach_df)
  /\ stock_metrics' = Append(stock_metrics, StockRecord09(breach_df[idx]))
  /\ idx' = idx + 1
  /\ UNCHANGED <<inputs, merged_df, breach_history, pipeline, pc, event_returns, volatility_metrics, updates_made, results>>

(* The 07, 08 and 09 loops are over: stock_df is built *)
StockDone ==
  /\ script \in {"07", "08", "09"}
  /\ pc = "stock"
  /\ idx > Len(breach_df)
  /\ pc' = "done"
  /\ UNCHANGED <<inputs, merged_df, breach_history, pipeline, idx, event_returns, volatility_metrics, stock_metrics,
                 updates_made, results>>

(* 12: recovered_data: the tickers of the rows with a ticker and           *)
(* has_stock_data False whose new download has more than 10 rows           *)
RecoveredData12(df, cols) ==
  { t \in {df[i].Map : i \in {j \in 1..Len(df) : ~cols[j].has_stock_data}} \ {NoTicker} :
      t \notin RaisingTickers /\ Cardinality(DOMAIN History(t)) > 10 }

Window12(hist, breach_date) == RowsIn(hist, breach_date - 60, breach_date + 60)
BreachIdx12(window, breach_date) == ArgMinFirst(Dates(window), breach_date)
Before12(window, breach_idx) ==
  SelectSeq(window, LAMBDA r : r.date < window[breach_idx + 1].date)
After12(window, breach_idx) ==
  SelectSeq(window, LAMBDA r : r.date >= window[breach_idx + 1].date)

(* 12 lines 122 and 123: the positions in after of the two post prices *)
Post5dPos12(after) == Min(5, Len(after) - 1)
Post30dPos12(after) == Min(20, Len(after) - 1)

(* 12 get_breach_returns: Some(dict), or Null for None *)
get_breach_returns_12(ticker, breach_date, hist) ==
  LET window == Window12(hist, breach_date)
      breach_idx == BreachIdx12(window, breach_date)
      before == Before12(window, breach_idx)
      after == After12(window, breach_idx)
      pre_price == before[Len(before) - 5 + 1].Close
      breach_price == after[1].Close
      post_5d == after[Post5dPos12(after) + 1].Close
      post_30d == after[Post30dPos12(after) + 1].Close
  IN  IF Len(window) < 10 THEN Null
      ELSE IF Len(before) < 5 \/ Len(after) < 5 THEN Null
      ELSE Some([ stock_price_at_breach |-> Some(Round(breach_price * One, 2)),
                  return_5d_pct |-> Some(Round(PctChange(post_5d, pre_price), 2)),
                  return_30d_pct |-> Some(Round(PctChange(post_30d, pre_price), 2)),
                  has_stock_data |-> TRUE ])

(* The 12 update loop without the test of has_stock_data at its head *)
UpdateStep12NoSkip ==
  /\ script = "12"
  /\ pc = "update"
  /\ idx <= Len(breach_df)
  /\ LET row == breach_df[idx]
         returns == get_breach_returns_12(row.Map, Val(row.breach_date),
                                          History(row.Map))
     IN  IF row.Map = NoTicker \/ IsNull(row.breach_date)
              \/ row.Map \notin stock_cache
         THEN UNCHANGED <<stock_metrics, updates_made>>
         ELSE IF NotNull(returns)
         THEN /\ stock_metrics' = [stock_metrics EXCEPT ![idx] = Val(returns)]
              /\ updates_made' = updates_made + 1
         ELSE UNCHANGED <<stock_metrics, updates_made>>
  /\ idx' = idx + 1
  /\ UNCHANGED <<inputs, merged_df, breach_history, pipeline, pc, event_returns, volatility_metrics, results>>

(* One iteration of the 12 update loop (lines 141-160); stock_metrics      *)
(* holds the stock columns of df                                           *)
UpdateStep12 ==
  /\ script = "12"
  /\ pc = "update"
  /\ idx <= Len(breach_df)
  /\ LET row == breach_df[idx]
         returns == get_breach_returns_12(row.Map, Val(row.breach_date),
                                          History(row.Map))
     IN  IF stock_metrics[idx].has_stock_data
         THEN UNCHANGED <<stock_metrics, updates_made>>
         ELSE IF row.Map = NoTicker \/ IsNull(row.breach_date)
                   \/ row.Map \notin stock_cache
         THEN UNCHANGED <<stock_metrics, updates_made>>
         ELSE IF NotNull(returns)
         THEN /\ stock_metrics' = [stock_metrics EXCEPT ![idx] = Val(returns)]
              /\ updates_made' = updates_made + 1
         ELSE UNCHANGED <<stock_metrics, updates_made>>
  /\ idx' = idx + 1
  /\ UNCHANGED <<inputs, merged_df, breach_history, pipeline, pc, event_returns, volatility_metrics, results>>

(* The update loop is over: the dataset is saved *)
UpdateDone12 ==
  /\ script = "12"
  /\ pc = "update"
  /\ idx > Len(breach_df)
  /\ pc' = "done"
  /\ UNCHANGED <<inputs, merged_df, breach_history, pipeline, idx, event_returns, volatility_metrics, stock_metrics,
                 updates_made, results>>

-----------------------------------------------------------------------------
(* scripts/42_industry_returns.py *)

(* sic_to_industry with the Manufacturing range tested before the ranges   *)
(* nested inside it                                                        *)
sic_to_industry_broad_first(sic) ==
  IF IsNull(sic) THEN "Other"
  ELSE LET c == Val(sic)
       IN  IF 2000 <= c /\ c <= 3999 THEN "Manufacturing"
           ELSE IF (3570 <= c /\ c <= 3579) \/ (3600 <= c /\ c <= 3679)
                \/ (7370 <= c /\ c <= 7379) THEN "Technology"
           ELSE IF 4800 <= c /\ c <= 4899 THEN "Communications"
           ELSE IF 6000 <= c /\ c <= 6999 THEN "Financial"
           ELSE IF (2830 <= c /\ c <= 2839) \/ (8000 <= c /\ c <= 8099)
             THEN "Healthcare"
           ELSE IF 5200 <= c /\ c <= 5999 THEN "Retail"
           ELSE "Other"

(* sic_to_industry; a missing code is Null *)
sic_to_industry(sic) ==
  IF IsNull(sic) THEN "Other"
  ELSE LET c == Val(sic)
       IN  IF (3570 <= c /\ c <= 3579) \/ (3600 <= c /\ c <= 3679)
                \/ (7370 <= c /\ c <= 7379) THEN "Technology"
           ELSE IF 4800 <= c /\ c <= 4899 THEN "Communications"
           ELSE IF 6000 <= c /\ c <= 6999 THEN "Financial"
           ELSE IF (2830 <= c /\ c <= 2839) \/ (8000 <= c /\ c <= 8099)
             THEN "Healthcare"
           ELSE IF 5200 <= c /\ c <= 5999 THEN "Retail"
           ELSE IF 2000 <= c /\ c <= 3999 THEN "Manufacturing"
           ELSE "Other"

(* firm_industries with its industry column: rows (permno, date, industry) *)
FirmIndustries ==
  { [permno |-> r.permno, date |-> r.date, industry |-> sic_to_industry(r.siccd)] :
      r \in firm_industries }

(* The latest of a non-empty set of rows (sort_values('date').tail(1)) *)
LatestRow(rows) == CHOOSE r \in rows : \A q \in rows : q.date <= r.date

(* The industry column of firm_returns after the left merge on (permno,    *)
(* date) and the forward fill within the firm: the label merged on the     *)
(* firm's latest return date at or before d that has a firm_industries row *)
ReturnRowIndustry(permno, d) ==
  LET matched == { r \in FirmIndustries :
                     /\ r.permno = permno
                     /\ r.date \in DOMAIN firm_returns[permno]
                     /\ r.date <= d }
  IN  IF matched = {} THEN Null ELSE Some(LatestRow(matched).industry)

(* The firms whose return row of date d carries the industry label *)
Bucket(industry, d) ==
  { f \in DOMAIN firm_returns :
      d \in DOMAIN firm_returns[f] /\ ReturnRowIndustry(f, d) = Some(industry) }

(* The sum of the returns of date d over a set of firms *)
RECURSIVE SumRet(_, _)
SumRet(fs, d) ==
  IF fs = {} THEN 0
  ELSE LET f == CHOOSE g \in fs : TRUE
       IN  Frac(Val(firm_returns[f][d])) + SumRet(fs \ {f}, d)

(* industry_returns: groupby(['date', 'industry'])['ret'].mean(): no row    *)
(* (Null) for an empty group, a missing mean when no return of the group   *)
(* is present                                                              *)
IndustryReturnRow(industry, d) ==
  LET grp == Bucket(industry, d)
      present == { f \in grp : NotNull(firm_returns[f][d]) }
  IN  IF grp = {} THEN Null
      ELSE Some([ date |-> d, industry |-> industry,
                  industry_return |->
                    IF present = {} THEN Null
                    ELSE Some(RoundDiv(SumRet(present, d), Cardinality(present))) ])

(* The firm's industry at the breach date (lines 210-218) *)
FirmIndustry(permno, breach_date) ==
  LET firm_ind == { r \in FirmIndustries : r.permno = permno /\ r.date <= breach_date }
  IN  IF firm_ind = {} THEN "Other" ELSE LatestRow(firm_ind).industry

(* merged: the firm's return rows of [breach_date - 1, breach_date + 30]    *)
(* with the industry return of the date and abnormal_return                *)
Merged(permno, industry, breach_date) ==
  LET ds == DatesIn(firm_returns[permno], breach_date - 1, breach_date + 30)
      IndRet(d) == LET r == IndustryReturnRow(industry, d)
                   IN  IF NotNull(r) THEN Val(r).industry_return ELSE Null
  IN  [i \in 1..Len(ds) |->
         LET industry_return == IndRet(ds[i])
         IN  [ date |-> ds[i],
               ret |-> firm_returns[permno][ds[i]],
               industry_return |-> industry_return,
               abnormal_return |->
                 IF NotNull(firm_returns[permno][ds[i]]) /\ NotNull(industry_return)
                 THEN Some(Frac(Val(firm_returns[permno][ds[i]])) - Val(industry_return))
                 ELSE Null ]]

(* (rows['abnormal_return'].fillna(0) * 100).sum() *)
CarSum(rows) ==
  SumSeq([i \in 1..Len(rows) |->
            (IF NotNull(rows[i].abnormal_return) THEN Val(rows[i].abnormal_return)
             ELSE 0) * 100])

Car5dData(merged, breach_date) ==
  SelectSeq(merged, LAMBDA r : breach_date - 1 <= r.date /\ r.date <= breach_date + 5)

(* The dict the loop appends for row idx of analysis_df (lines 206-273) *)
IndustryResult(i, row) ==
  LET industry == FirmIndustry(row.permno, row.breach_date)
      merged == Merged(row.permno, industry, row.breach_date)
      car_5d_data == Car5dData(merged, row.breach_date)
  IN  [ breach_id |-> i - 1,
        permno |-> row.permno,
        breach_date |-> row.breach_date,
        industry |-> industry,
        car_5d_industry_adj |->
          IF Len(car_5d_data) >= 3 THEN Some(CarSum(car_5d_data)) ELSE Null,
        car_30d_industry_adj |->
          IF Len(merged) >= 15 THEN Some(CarSum(merged)) ELSE Null ]

(* One iteration of the loop over analysis_df (lines 202-273) *)
IndustryStep ==
  /\ script = "42"
  /\ pc = "industry"
  /\ idx <= Len(analysis_df)
  /\ results' = Append(results, IndustryResult(idx, analysis_df[idx]))
  /\ idx' = idx + 1
  /\ UNCHANGED <<inputs, merged_df, breach_history, pipeline, pc, event_returns, volatility_metrics, stock_metrics,
                 updates_made>>

(* 42 lines 17-19 (and 107-110): no record to work on, the script prints   *)
(* a message and calls exit(), which raises SystemExit                     *)
ExitNoRecords ==
  /\ script = "42"
  /\ pc = "industry"
  /\ Len(analysis_df) = 0
  /\ pc' = "exited"
  /\ UNCHANGED <<inputs, merged_df, breach_history, pipeline, idx, event_returns, volatility_metrics, stock_metrics,
                 updates_made, results>>

(* The loop is over: results_df is built and saved *)
IndustryDone ==
  /\ script = "42"
  /\ pc = "industry"
  /\ Len(analysis_df) > 0
  /\ idx > Len(analysis_df)
  /\ pc' = "done"
  /\ UNCHANGED <<inputs, merged_df, breach_history, pipeline, idx, event_returns, volatility_metrics, stock_metrics,
                 updates_made, results>>

-----------------------------------------------------------------------------

(* run_all.py is not running *)
NoPipeline ==
  /\ required_present = FALSE
  /\ returncode = <<>>
  /\ executed = <<>>
  /\ success = Null
  /\ exit_status = Null

NoIndustryData ==
  /\ analysis_df = <<>>
  /\ firm_industries = {}
  /\ firm_returns = <<>>
  /\ results = <<>>
  /\ base_df = <<>>
  /\ merged_df = <<>>
  /\ breach_history = <<>>

(* The tables crsp_daily can hold: the rows of ticker "A" in one of the     *)
(* shapes, or no row at all (a file with its header only)                  *)
CrspTables20 ==
  { [t \in Tickers |-> IF t = "A" THEN SeriesOf(sp.sh, sp.p) ELSE NoSeries] :
      sp \in ShapePatterns20 }
    \cup { [t \in Tickers |-> NoSeries] }

Init20 ==
  /\ script = "20"
  /\ market \in CrspTables20
  /\ breach_df \in Batches(EventOptions20) \cup {<<>>}
  /\ idx = 1
  /\ pc = "event_returns"
  /\ event_returns = <<>>
  /\ volatility_metrics = <<>>
  /\ stock_metrics = <<>>
  /\ stock_cache = {}
  /\ updates_made = 0
  /\ NoPipeline
  /\ NoIndustryData

InitStock ==
  /\ script \in {"07", "08", "09"}
  /\ \E sh \in StockShapes :
       market = [t \in Tickers |-> IF t = "A" THEN SeriesOf(sh, "saw") ELSE NoSeries]
  /\ breach_df \in Batches(EventOptionsStock)
  /\ idx = 1
  /\ pc = "stock"
  /\ event_returns = <<>>
  /\ volatility_metrics = <<>>
  /\ stock_metrics = <<>>
  /\ stock_cache = IF script = "09" THEN StockCache09(breach_df) ELSE {}
  /\ updates_made = 0
  /\ NoPipeline
  /\ NoIndustryData

(* A row of the dataset 12 loads that already has stock data *)
PriorStockRecord ==
  [ stock_price_at_breach |-> Some(20 * One), return_5d_pct |-> Some(0),
    return_30d_pct |-> Some(0), has_stock_data |-> TRUE ]

Init12 ==
  /\ script = "12"
  /\ \E sh \in StockShapes :
       market = [t \in Tickers |-> IF t = "A" THEN SeriesOf(sh, "saw") ELSE NoSeries]
  /\ breach_df \in Batches(EventOptionsStock)
  /\ \E had \in [1..Len(breach_df) -> BOOLEAN] :
       /\ \A i \in 1..Len(breach_df) :
            had[i] => breach_df[i].Map = "A" /\ NotNull(breach_df[i].breach_date)
       /\ stock_metrics = [i \in 1..Len(breach_df) |->
                             IF had[i] THEN PriorStockRecord ELSE NoStockRecord]
  /\ stock_cache = RecoveredData12(breach_df, stock_metrics)
  /\ idx = 1
  /\ pc = IF stock_cache # {} THEN "update" ELSE "done"
  /\ event_returns = <<>>
  /\ volatility_metrics = <<>>
  /\ updates_made = 0
  /\ NoPipeline
  /\ NoIndustryData

(* 42 reads the breaches with CRSP data and a PERMNO, and downloads the    *)
(* returns and the monthly SIC codes of exactly their firms.               *)
Permnos == {1, 2, 3}

FirmSpans ==
  { [lo |-> -3, hi |-> 0], [lo |-> -3, hi |-> 1], [lo |-> -3, hi |-> 3],
    [lo |-> -3, hi |-> 13], [lo |-> -3, hi |-> 32], [lo |-> 6, hi |-> 32] }

(* The firm_industries rows of one firm, by plan *)
SicRows(f, plan) ==
  CASE plan = "tech" -> { [permno |-> f, date |-> EvDay - 3, siccd |-> Some(3571)] }
    [] plan = "retail" -> { [permno |-> f, date |-> EvDay - 3, siccd |-> Some(5411)] }
    [] plan = "nosic" -> { [permno |-> f, date |-> EvDay - 3, siccd |-> Null] }
    [] plan = "moves" -> { [permno |-> f, date |-> EvDay - 3, siccd |-> Some(3571)],
                           [permno |-> f, date |-> EvDay + 2, siccd |-> Some(5411)] }
    [] plan = "late" -> { [permno |-> f, date |-> EvDay + 2, siccd |-> Some(3571)] }
    [] plan = "offday" -> { [permno |-> f, date |-> EvDay - 4, siccd |-> Some(3571)] }
    [] OTHER -> {}

Plans1 == {"tech", "moves", "late", "offday", "none"}
PlansOther == {"tech", "retail"}

(* A row of FINAL_DISSERTATION_DATASET.xlsx: the breach with its           *)
(* has_crsp_data column; the firm stands for its CIK CODE                  *)
BaseRow(b, has_crsp_data) ==
  [ permno |-> b.permno, breach_date |-> b.breach_date,
    has_crsp_data |-> has_crsp_data ]

(* The rows of analysis_df: the breach of firm 1 on either day, of the     *)
(* other firms on the day itself                                           *)
Breaches42 ==
  { b \in [permno : Permnos, breach_date : {EvDay, EvDay + 1}] :
      b.breach_date = EvDay \/ b.permno = 1 }

FirmRet(f, masked, d) ==
  IF masked /\ d % 4 = 1 THEN Null ELSE Some(Saw(d + 2 * f))

Init42 ==
  /\ script = "42"
  /\ analysis_df \in UNION { [1..n -> Breaches42] : n \in 0..MaxEvents }
  /\ \E span \in FirmSpans, masked \in BOOLEAN, plan1 \in Plans1, plan \in PlansOther :
       /\ masked => (span.lo = -3 /\ span.hi = 32)
       /\ plan = "retail" => plan1 = "tech"
       /\ LET firms == {analysis_df[i].permno : i \in 1..Len(analysis_df)}
              DaysOf(f) == IF f = 1 THEN (EvDay + span.lo)..(EvDay + span.hi)
                           ELSE (EvDay - 3)..(EvDay + 32)
          IN  /\ firm_returns =
                   [f \in firms |-> [d \in DaysOf(f) |-> FirmRet(f, masked, d)]]
              /\ firm_industries =
                   UNION { SicRows(f, IF f = 1 THEN plan1
                                      ELSE IF f = 2 THEN plan ELSE "tech") : f \in firms }
  /\ base_df = [i \in 1..Len(analysis_df) |-> BaseRow(analysis_df[i], TRUE)]
  /\ merged_df = <<>>
  /\ breach_history = <<>>
  /\ results = <<>>
  /\ idx = 1
  /\ pc = "industry"
  /\ market = [t \in Tickers |-> NoSeries]
  /\ breach_df = <<>>
  /\ event_returns = <<>>
  /\ volatility_metrics = <<>>
  /\ stock_metrics = <<>>
  /\ stock_cache = {}
  /\ updates_made = 0
  /\ NoPipeline

Init == Init20 \/ InitStock \/ Init12 \/ Init42

Next ==
  \/ ExitNoRecords
  \/ IndustryStep
  \/ IndustryDone
  \/ UpdateStep12
  \/ UpdateDone12
  \/ StockStep07
  \/ StockStep08
  \/ StockStep09
  \/ StockDone
  \/ EventReturnsStep
  \/ EventReturnsDone
  \/ VolatilityStep
  \/ VolatilityDone

Spec == Init /\ [][Next]_vars

(* 20 alone: the event study and the volatility loop on every table and    *)
(* batch of Init20                                                         *)
NextReturns ==
  \/ EventReturnsStep
  \/ EventReturnsDone
  \/ VolatilityStep
  \/ VolatilityDone

ReturnsSpec == Init20 /\ [][NextReturns]_vars

-----------------------------------------------------------------------------
(* 42 line 157: firm_industries['industry'] =                              *)
(* firm_industries['siccd'].apply(sic_to_industry), one row after the      *)
(* other.  results holds the rows with their new column.                   *)

(* The codes at and next to every bound of the ranges, codes inside each   *)
(* range, and codes far from all of them                                   *)
SicCodes ==
  { 0, 100, 1999, 2000, 2500, 2829, 2830, 2835, 2839, 2840, 3569, 3570, 3575,
    3579, 3580, 3599, 3600, 3650, 3679, 3680, 3999, 4000, 4799, 4800, 4850,
    4899, 4900, 5199, 5200, 5500, 5999, 6000, 6500, 6999, 7000, 7369, 7370,
    7375, 7379, 7380, 7999, 8000, 8050, 8099, 8100, 9999 }

SicValues == {Null} \cup { Some(c) : c \in SicCodes }

InitSic ==
  /\ script = "42"
  /\ \E c1 \in SicValues, c2 \in {Null, Some(2835), Some(3575), Some(9999)} :
       firm_industries = { [permno |-> 1, date |-> EvDay, siccd |-> c1],
                           [permno |-> 2, date |-> EvDay, siccd |-> c2] }
  /\ pc = "classify"
  /\ idx = 1
  /\ results = <<>>
  /\ base_df = <<>>
  /\ merged_df = <<>>
  /\ breach_history = <<>>
  /\ analysis_df = <<>>
  /\ firm_returns = <<>>
  /\ market = [t \in Tickers |-> NoSeries]
  /\ breach_df = <<>>
  /\ event_returns = <<>>
  /\ volatility_metrics = <<>>
  /\ stock_metrics = <<>>
  /\ stock_cache = {}
  /\ updates_made = 0
  /\ NoPipeline

(* apply() calls sic_to_industry on the code of one row *)
ClassifyStep ==
  /\ script = "42"
  /\ pc = "classify"
  /\ \E r \in firm_industries :
       /\ r.permno = idx
       /\ results' = Append(results, [ permno |-> r.permno, date |-> r.date,
                                       siccd |-> r.siccd,
                                       industry |-> sic_to_industry(r.siccd) ])
  /\ idx' = idx + 1
  /\ UNCHANGED <<inputs, merged_df, breach_history, pipeline, pc, event_returns, volatility_metrics, stock_metrics,
                 updates_made>>

(* Every row has its label *)
ClassifyDone ==
  /\ script = "42"
  /\ pc = "classify"
  /\ \A r \in firm_industries : r.permno < idx
  /\ pc' = "done"
  /\ UNCHANGED <<inputs, merged_df, breach_history, pipeline, idx, event_returns, volatility_metrics, stock_metrics,
                 updates_made, results>>

NextSic == ClassifyStep \/ ClassifyDone

SicSpec == InitSic /\ [][NextSic]_vars

-----------------------------------------------------------------------------
(* 42 from its first line, followed by 51: the base dataset is loaded and  *)
(* filtered, the results are computed and saved, and 51 merges them back   *)
(* into the base dataset on breach_id.                                     *)

BaseRows == { BaseRow(b, h) : b \in Breaches42, h \in BOOLEAN }

InitMerge ==
  /\ script = "42"
  /\ base_df \in UNION { [1..n -> BaseRows] : n \in 1..MaxEvents }
  /\ pc = "load"
  /\ idx = 1
  /\ analysis_df = <<>>
  /\ firm_industries = {}
  /\ firm_returns = <<>>
  /\ results = <<>>
  /\ merged_df = <<>>
  /\ breach_history = <<>>
  /\ market = [t \in Tickers |-> NoSeries]
  /\ breach_df = <<>>
  /\ event_returns = <<>>
  /\ volatility_metrics = <<>>
  /\ stock_metrics = <<>>
  /\ stock_cache = {}
  /\ updates_made = 0
  /\ NoPipeline

(* df[df['has_crsp_data'] == True] (line 13) *)
CrspRows(base) == SelectSeq(base, LAMBDA r : r.has_crsp_data)

(* 42 lines 10-15, 99-105 and 119-169: the rows with CRSP data are kept,   *)
(* the merge with cik_permno_map gives each its permno and numbers the     *)
(* rows 0, 1, ... anew, and the classifications and returns of their firms *)
(* are downloaded                                                          *)
Load42 ==
  /\ script = "42"
  /\ pc = "load"
  /\ LET kept == CrspRows(base_df)
         firms == { kept[i].permno : i \in 1..Len(kept) }
     IN  /\ analysis_df' = [i \in 1..Len(kept) |->
                              [ permno |-> kept[i].permno,
                                breach_date |-> kept[i].breach_date ]]
         /\ firm_industries' = UNION { SicRows(f, "tech") : f \in firms }
         /\ firm_returns' =
              [f \in firms |-> [d \in (EvDay - 3)..(EvDay + 32) |-> FirmRet(f, FALSE, d)]]
  /\ pc' = "industry"
  /\ UNCHANGED <<pipeline, breach_history, script, market, breach_df, stock_cache, base_df, merged_df, idx,
                 event_returns, volatility_metrics, stock_metrics, updates_made,
                 results>>

(* 51 lines 68-99: merged_df['breach_id'] = merged_df.index, then the left *)
(* merge with industry_adjusted_returns.csv on breach_id; a row without a  *)
(* match has the new columns missing                                       *)
Merge51 ==
  /\ script = "42"
  /\ pc \in {"done", "exited"}
  /\ script' = "51"
  /\ pc' = "merged"
  /\ merged_df' =
       [k \in 1..Len(base_df) |->
          LET breach_id == k - 1
              match == { i \in 1..Len(results) : results[i].breach_id = breach_id }
          IN  [ breach_id |-> breach_id,
                breach_date |-> base_df[k].breach_date,
                has_crsp_data |-> base_df[k].has_crsp_data,
                enrichment |-> IF match = {} THEN Null
                               ELSE Some(results[CHOOSE i \in match : TRUE]) ]]
  /\ UNCHANGED <<pipeline, breach_history, market, breach_df, stock_cache, analysis_df, firm_industries,
                 firm_returns, base_df, idx, event_returns, volatility_metrics,
                 stock_metrics, updates_made, results>>

NextMerge ==
  \/ Load42
  \/ ExitNoRecords
  \/ IndustryStep
  \/ IndustryDone
  \/ Merge51

MergeSpec == InitMerge /\ [][NextMerge]_vars

-----------------------------------------------------------------------------
(* run_all.py *)

(* The analysis scripts in the order run_all names them (lines 163-193) *)
Scripts == <<"01", "02", "03", "04">>

(* What subprocess.run does for a script: the child exits with status 0,   *)
(* it exits with another status, or the child cannot be started and the    *)
(* call raises                                                             *)
Outcomes == {"zero", "nonzero", "raises"}

InitRunAll ==
  /\ script = "run_all"
  /\ pc = "verify_data"
  /\ required_present \in BOOLEAN
  /\ returncode \in [1..Len(Scripts) -> Outcomes]
  /\ executed = <<>>
  /\ success = Null
  /\ exit_status = Null
  /\ idx = 1
  /\ market = [t \in Tickers |-> NoSeries]
  /\ breach_df = <<>>
  /\ event_returns = <<>>
  /\ volatility_metrics = <<>>
  /\ stock_metrics = <<>>
  /\ stock_cache = {}
  /\ updates_made = 0
  /\ NoIndustryData

(* run_all lines 159-160 with verify_data (lines 61-87) *)
VerifyData ==
  /\ script = "run_all"
  /\ pc = "verify_data"
  /\ IF required_present
     THEN /\ pc' = "run_script"
          /\ UNCHANGED success
     ELSE /\ pc' = "returned"
          /\ success' = Some(FALSE)
  /\ UNCHANGED <<inputs, merged_df, breach_history, required_present, returncode, executed, exit_status,
                 idx, event_returns, volatility_metrics, stock_metrics, updates_made,
                 results>>

(* One of the four steps of run_all with a failure ending run_all *)
RunScriptStopping ==
  /\ script = "run_all"
  /\ pc = "run_script"
  /\ idx <= Len(Scripts)
  /\ IF returncode[idx] = "raises"
     THEN /\ pc' = "raised"
          /\ UNCHANGED <<executed, idx, success>>
     ELSE /\ executed' = Append(executed, Scripts[idx])
          /\ idx' = idx + 1
          /\ IF returncode[idx] = "nonzero"
             THEN pc' = "returned" /\ success' = Some(FALSE)
             ELSE /\ pc' = IF idx = Len(Scripts) THEN "verify_outputs" ELSE "run_script"
                  /\ UNCHANGED success
  /\ UNCHANGED <<inputs, merged_df, breach_history, required_present, returncode, exit_status,
                 event_returns, volatility_metrics, stock_metrics, updates_made,
                 results>>

(* One of the four steps of run_all (lines 162-196) with run_script (lines *)
(* 29-59): the script runs as a child process; a status other than 0 makes *)
(* run_script return False and run_all print a warning and go on; an       *)
(* exception of subprocess.run leaves run_all                              *)
RunScript ==
  /\ script = "run_all"
  /\ pc = "run_script"
  /\ idx <= Len(Scripts)
  /\ IF returncode[idx] = "raises"
     THEN /\ pc' = "raised"
          /\ UNCHANGED <<executed, idx>>
     ELSE /\ executed' = Append(executed, Scripts[idx])
          /\ idx' = idx + 1
          /\ pc' = IF idx = Len(Scripts) THEN "verify_outputs" ELSE "run_script"
  /\ UNCHANGED <<inputs, merged_df, breach_history, required_present, returncode, success, exit_status,
                 event_returns, volatility_metrics, stock_metrics, updates_made,
                 results>>

(* run_all line 199 *)
VerifyOutputs ==
  /\ script = "run_all"
  /\ pc = "verify_outputs"
  /\ executed' = Append(executed, "verify_outputs")
  /\ pc' = "verify_dashboard"
  /\ UNCHANGED <<inputs, merged_df, breach_history, required_present, returncode, success, exit_status,
                 idx, event_returns, volatility_metrics, stock_metrics, updates_made,
                 results>>

(* run_all lines 201-250: verify_dashboard, the summary, return True *)
VerifyDashboard ==
  /\ script = "run_all"
  /\ pc = "verify_dashboard"
  /\ executed' = Append(executed, "verify_dashboard")
  /\ success' = Some(TRUE)
  /\ pc' = "returned"
  /\ UNCHANGED <<inputs, merged_df, breach_history, required_present, returncode, exit_status,
                 idx, event_returns, volatility_metrics, stock_metrics, updates_made,
                 results>>

(* __main__ (lines 252-263): sys.exit(0 if success else 1), and            *)
(* sys.exit(1) in the except branch                                        *)
Exit ==
  /\ script = "run_all"
  /\ pc \in {"returned", "raised"}
  /\ exit_status' = Some(IF pc = "returned" /\ success = Some(TRUE) THEN 0 ELSE 1)
  /\ pc' = "exited"
  /\ UNCHANGED <<inputs, merged_df, breach_history, required_present, returncode, executed, success,
                 idx, event_returns, volatility_metrics, stock_metrics, updates_made,
                 results>>

NextRunAll ==
  \/ VerifyData
  \/ RunScript
  \/ VerifyOutputs
  \/ VerifyDashboard
  \/ Exit

(* The interpreter goes on to the next statement of run_all *)
RunAllSpec == InitRunAll /\ [][NextRunAll]_vars /\ WF_vars(NextRunAll)

-----------------------------------------------------------------------------
(* scripts/41_prior_breaches.py; base_df holds its df, each row with its   *)
(* index label, and a missing breach_date (NaT) is Null                    *)

Orgs == <<"X", "Y">>

(* Breach dates at the distances the windows of 1, 3 and 5 years end at *)
HistoryDates ==
  { EvDay, EvDay + 365, EvDay + 366, EvDay + 1095, EvDay + 1096,
    EvDay + 1825, EvDay + 1826 }

(* The rows of the file: breaches of the first organization on any of the  *)
(* dates or without a date, and one breach of the second                   *)
HistoryRows ==
  [org_name : {Orgs[1]}, breach_date : {Null} \cup {Some(d) : d \in HistoryDates}]
    \cup {[org_name |-> Orgs[2], breach_date |-> Some(EvDay)]}

InitHistory ==
  /\ script = "41"
  /\ pc = "sort"
  /\ \E n \in 1..(MaxEvents + 1) : \E file \in [1..n -> HistoryRows] :
       base_df = [i \in 1..n |-> [ index |-> i - 1, org_name |-> file[i].org_name,
                                   breach_date |-> file[i].breach_date ]]
  /\ breach_history = <<>>
  /\ idx = 1
  /\ analysis_df = <<>>
  /\ firm_industries = {}
  /\ firm_returns = <<>>
  /\ results = <<>>
  /\ merged_df = <<>>
  /\ market = [t \in Tickers |-> NoSeries]
  /\ breach_df = <<>>
  /\ event_returns = <<>>
  /\ volatility_metrics = <<>>
  /\ stock_metrics = <<>>
  /\ stock_cache = {}
  /\ updates_made = 0
  /\ NoPipeline

OrgRank(org) == CHOOSE k \in 1..Len(Orgs) : Orgs[k] = org

(* The order of sort_values(['org_name', 'breach_date']): by organization, *)
(* then by date with the missing dates last, equal keys in file order      *)
SortsBefore(a, b) ==
  \/ OrgRank(a.org_name) < OrgRank(b.org_name)
  \/ /\ a.org_name = b.org_name
     /\ \/ NotNull(a.breach_date) /\ IsNull(b.breach_date)
        \/ NotNull(a.breach_date) /\ NotNull(b.breach_date)
             /\ Val(a.breach_date) < Val(b.breach_date)
        \/ a.breach_date = b.breach_date /\ a.index < b.index

(* 41 lines 13-16 *)
SortValues ==
  /\ script = "41"
  /\ pc = "sort"
  /\ base_df' = SortSeq(base_df, SortsBefore)
  /\ pc' = "history"
  /\ UNCHANGED <<pipeline, breach_history, script, market, breach_df, stock_cache,
                 analysis_df, firm_industries, firm_returns, merged_df, idx,
                 event_returns, volatility_metrics, stock_metrics, updates_made,
                 results>>

(* The rows counted when the comparison with the breach date is <= *)
PriorRowsInclusive(org, breach_date, days) ==
  { i \in 1..Len(base_df) :
      /\ base_df[i].org_name = org
      /\ NotNull(base_df[i].breach_date) /\ NotNull(breach_date)
      /\ Val(base_df[i].breach_date) <= Val(breach_date)
      /\ days # Null => Val(base_df[i].breach_date) >= Val(breach_date) - Val(days) }

(* df[(df['org_name'] == org) & (df['breach_date'] < breach_date) &        *)
(* (df['breach_date'] >= breach_date - timedelta(days=days))]; days is     *)
(* Null for the selection without the last condition; a comparison with a  *)
(* missing date is False                                                   *)
PriorRows(org, breach_date, days) ==
  { i \in 1..Len(base_df) :
      /\ base_df[i].org_name = org
      /\ NotNull(base_df[i].breach_date) /\ NotNull(breach_date)
      /\ Val(base_df[i].breach_date) < Val(breach_date)
      /\ days # Null => Val(base_df[i].breach_date) >= Val(breach_date) - Val(days) }

(* ['breach_date'].max() of a non-empty selection *)
LastBreach(rows) ==
  CHOOSE d \in { Val(base_df[i].breach_date) : i \in rows } :
    \A i \in rows : Val(base_df[i].breach_date) <= d

(* The dict appended for a row (lines 25-62) *)
HistoryRecord(row) ==
  LET org == row.org_name
      breach_date == row.breach_date
      prior == PriorRows(org, breach_date, Null)
      prior_breaches == Cardinality(prior)
  IN  [ breach_id |-> row.index,
        org_name |-> org,
        breach_date |-> breach_date,
        prior_breaches_total |-> prior_breaches,
        prior_breaches_1yr |-> Cardinality(PriorRows(org, breach_date, Some(365))),
        prior_breaches_3yr |-> Cardinality(PriorRows(org, breach_date, Some(1095))),
        prior_breaches_5yr |-> Cardinality(PriorRows(org, breach_date, Some(1825))),
        days_since_last_breach |->
          IF prior_breaches > 0 THEN Some(Val(breach_date) - LastBreach(prior))
          ELSE Null,
        is_repeat_offender |-> IF prior_breaches > 0 THEN 1 ELSE 0,
        is_first_breach |-> IF prior_breaches = 0 THEN 1 ELSE 0 ]

(* One iteration of the loop over df.iterrows() (lines 24-62) *)
HistoryStep ==
  /\ script = "41"
  /\ pc = "history"
  /\ idx <= Len(base_df)
  /\ breach_history' = Append(breach_history, HistoryRecord(base_df[idx]))
  /\ idx' = idx + 1
  /\ UNCHANGED <<inputs, merged_df, pipeline, pc, event_returns, volatility_metrics,
                 stock_metrics, updates_made, results>>

(* The loop is over: history_df is built (line 64) *)
HistoryDone ==
  /\ script = "41"
  /\ pc = "history"
  /\ idx > Len(base_df)
  /\ pc' = "done"
  /\ UNCHANGED <<inputs, merged_df, pipeline, breach_history, idx, event_returns,
                 volatility_metrics, stock_metrics, updates_made, results>>

NextHistory == SortValues \/ HistoryStep \/ HistoryDone

HistorySpec == InitHistory /\ [][NextHistory]_vars

-----------------------------------------------------------------------------
(* The handlers of 20 and 09 followed statement by statement: pc is the    *)
(* position inside the call made for row idx.  At the loop head            *)
(* ("event_returns", "stock") the row has not been looked at; "aligned" is *)
(* the position after event_pos / breach_idx is found; "window_extracted"  *)
(* is the position after the window checks, before the arithmetic.         *)

(* 20: the alignment jumps over the window check (no "aligned" position)   *)
AlignEvent20Skipping ==
  /\ script = "20"
  /\ pc = "event_returns"
  /\ idx <= Len(breach_df)
  /\ LET row == breach_df[idx]
         ticker_data == CrspMarket(row.Map)
     IN  IF \/ row.Map = NoTicker
            \/ IsNull(row.breach_date)
            \/ DOMAIN ticker_data = {}
            \/ Len(EventWindow(ticker_data, Val(row.breach_date))) < 10
         THEN /\ event_returns' = Append(event_returns, NoCrspRecord)
              /\ idx' = idx + 1
              /\ pc' = "event_returns"
         ELSE /\ pc' = "window_extracted"
              /\ UNCHANGED <<event_returns, idx>>
  /\ UNCHANGED <<inputs, merged_df, breach_history, pipeline, volatility_metrics, stock_metrics, updates_made, results>>

(* 20 lines 119-131 and 70-88: the row is read; a missing ticker or date,  *)
(* no rows of the ticker or fewer than 10 rows in the window end the       *)
(* iteration with the empty record, otherwise event_pos is found           *)
AlignEvent20 ==
  /\ script = "20"
  /\ pc = "event_returns"
  /\ idx <= Len(breach_df)
  /\ LET row == breach_df[idx]
         ticker_data == CrspMarket(row.Map)
     IN  IF \/ row.Map = NoTicker
            \/ IsNull(row.breach_date)
            \/ DOMAIN ticker_data = {}
            \/ Len(EventWindow(ticker_data, Val(row.breach_date))) < 10
         THEN /\ event_returns' = Append(event_returns, NoCrspRecord)
              /\ idx' = idx + 1
              /\ pc' = "event_returns"
         ELSE /\ pc' = "aligned"
              /\ UNCHANGED <<event_returns, idx>>
  /\ UNCHANGED <<inputs, merged_df, breach_history, pipeline, volatility_metrics, stock_metrics, updates_made, results>>

(* 20 lines 90-94: post_5d and post_30d are taken; no row after the event  *)
(* ends the iteration with the empty record                                *)
ExtractWindow20 ==
  /\ script = "20"
  /\ pc = "aligned"
  /\ LET row == breach_df[idx]
         event_window == EventWindow(CrspMarket(row.Map), Val(row.breach_date))
         event_pos == EventPos(event_window, Val(row.breach_date))
     IN  IF PostInsufficient(Post5d(event_window, event_pos), event_pos)
         THEN /\ event_returns' = Append(event_returns, NoCrspRecord)
              /\ idx' = idx + 1
              /\ pc' = "event_returns"
         ELSE /\ pc' = "window_extracted"
              /\ UNCHANGED <<event_returns, idx>>
  /\ UNCHANGED <<inputs, merged_df, breach_history, pipeline, volatility_metrics, stock_metrics, updates_made, results>>

(* 20 lines 96-112 and 133-135: the sums and products, the returned dict   *)
(* is appended                                                             *)
ComputeReturns20 ==
  /\ script = "20"
  /\ pc = "window_extracted"
  /\ LET row == breach_df[idx]
     IN  event_returns' = Append(event_returns,
           Val(calculate_event_returns(row.Map, Val(row.breach_date),
                                       CrspMarket(row.Map))))
  /\ idx' = idx + 1
  /\ pc' = "event_returns"
  /\ UNCHANGED <<inputs, merged_df, breach_history, pipeline, volatility_metrics, stock_metrics, updates_made, results>>

(* 09 lines 154-165 and 59-93: the row is read; a missing ticker or date,  *)
(* a ticker out of the cache or fewer than 10 rows in the window end the   *)
(* iteration with the empty record, otherwise breach_idx is found          *)
AlignEvent09 ==
  /\ script = "09"
  /\ pc = "stock"
  /\ idx <= Len(breach_df)
  /\ LET row == breach_df[idx]
     IN  IF \/ row.Map = NoTicker
            \/ IsNull(row.breach_date)
            \/ row.Map \notin stock_cache
            \/ Len(BreachWindow09(History(row.Map), Val(row.breach_date))) < 10
         THEN /\ stock_metrics' = Append(stock_metrics, NoStockRecord)
              /\ idx' = idx + 1
              /\ pc' = "stock"
         ELSE /\ pc' = "aligned"
              /\ UNCHANGED <<stock_metrics, idx>>
  /\ UNCHANGED <<inputs, merged_df, breach_history, pipeline, event_returns, volatility_metrics, updates_made, results>>

(* 09 lines 95-118: pre_data and post_data are cut; fewer than 5 rows      *)
(* before or fewer than 2 after end the iteration with the empty record    *)
ExtractWindow09 ==
  /\ script = "09"
  /\ pc = "aligned"
  /\ LET row == breach_df[idx]
         breach_window == BreachWindow09(History(row.Map), Val(row.breach_date))
         breach_idx == BreachIdx09(breach_window, Val(row.breach_date))
     IN  IF \/ Len(PreData09(breach_window, breach_idx)) < 5
            \/ Len(PostData09(breach_window, breach_idx)) < 2
         THEN /\ stock_metrics' = Append(stock_metrics, NoStockRecord)
              /\ idx' = idx + 1
              /\ pc' = "stock"
         ELSE /\ pc' = "window_extracted"
              /\ UNCHANGED <<stock_metrics, idx>>
  /\ UNCHANGED <<inputs, merged_df, breach_history, pipeline, event_returns, volatility_metrics, updates_made, results>>

(* 09 lines 120-138 and 167-168: the prices and returns, the returned dict *)
(* is appended                                                             *)
ComputeReturns09 ==
  /\ script = "09"
  /\ pc = "window_extracted"
  /\ LET row == breach_df[idx]
     IN  stock_metrics' = Append(stock_metrics,
           breach_returns_09(History(row.Map), Val(row.breach_date)))
  /\ idx' = idx + 1
  /\ pc' = "stock"
  /\ UNCHANGED <<inputs, merged_df, breach_history, pipeline, event_returns, volatility_metrics, updates_made, results>>

InitEvents == Init20 \/ (InitStock /\ script = "09")

NextEvents ==
  \/ AlignEvent20
  \/ ExtractWindow20
  \/ ComputeReturns20
  \/ EventReturnsDone
  \/ VolatilityStep
  \/ VolatilityDone
  \/ AlignEvent09
  \/ ExtractWindow09
  \/ ComputeReturns09
  \/ StockDone

(* The positions of the two scripts *)
Positions ==
  {"event_returns", "stock", "aligned", "window_extracted", "volatility", "done", "raised"}

(* The script has ended: after its last statement, or with a traceback *)
Ended == pc \in {"done", "raised"}

(* The interpreter runs the statement at the current position and moves to *)
(* the next one: the position <<pc, idx>> changes.  Every step of          *)
(* NextEvents is such a step, and one can be taken at every position       *)
(* before the end.                                                         *)
Advance ==
  /\ ~Ended
  /\ pc' \in Positions
  /\ idx' \in 1..(MaxEvents + 1)
  /\ <<pc', idx'>> # <<pc, idx>>

(* A script runs its statements one after the other until it ends: it     *)
(* does not stop at a position it can leave                                *)
EventSpec == InitEvents /\ [][NextEvents]_vars /\ WF_<<pc, idx>>(Advance)

-----------------------------------------------------------------------------
(* Properties *)

(* A row of breach_df with a ticker and a breach date *)
Valid(row) == row.Map # NoTicker /\ NotNull(row.breach_date)

(* The rows of the ticker the event names, none when it names no ticker *)
SeriesDays(row) ==
  IF row.Map \in DOMAIN market THEN DOMAIN market[row.Map] ELSE {}

(* C1: the batch loops of 20 and 07 append exactly one element per event   *)
(* processed so far, in order, and every element is a result record that   *)
(* either is sufficient or has the sufficiency flag false and every metric *)
(* null, whatever step failed for the event.                               *)
C1_BatchNeverAborts ==
  /\ script = "20" =>
       /\ Len(event_returns) = IF pc = "event_returns" THEN idx - 1 ELSE Len(breach_df)
       /\ \A i \in 1..Len(event_returns) :
            event_returns[i].has_crsp_data \/ event_returns[i] = NoCrspRecord
  /\ script = "07" =>
       /\ Len(stock_metrics) = IF pc = "stock" THEN idx - 1 ELSE Len(breach_df)
       /\ \A i \in 1..Len(stock_metrics) :
            /\ ~IsPyNone(stock_metrics[i])
            /\ stock_metrics[i].has_stock_data \/ stock_metrics[i] = NoStockRecord

(* C2: every record of event_returns has car_5d, car_30d, bhar_5d and      *)
(* bhar_30d all null when has_crsp_data is false and all four present when *)
(* it is true.                                                             *)
C2_NeverPartial ==
  script = "20" =>
    \A i \in 1..Len(event_returns) :
      LET r == event_returns[i]
          metrics == {r.car_5d, r.car_30d, r.bhar_5d, r.bhar_30d}
      IN  IF r.has_crsp_data THEN \A m \in metrics : NotNull(m)
          ELSE \A m \in metrics : IsNull(m)

(* A batch of 20 with a computed record whose 30-day window is cut short   *)
(* by the end of the series and a record of an event whose computation     *)
(* returned None                                                           *)
C2_Witness ==
  /\ script = "20"
  /\ \E i, j \in 1..Len(event_returns) :
       /\ event_returns[i].has_crsp_data
       /\ Cardinality(SeriesDays(breach_df[i])) < 30
       /\ ~event_returns[j].has_crsp_data
       /\ Valid(breach_df[j])
       /\ SeriesDays(breach_df[j]) # {}

(* The rows of the event's ticker dated in [breach_date + a, breach_date + b] *)
RowsAround(row, a, b) ==
  RowsIn(CrspMarket(row.Map), Val(row.breach_date) + a, Val(row.breach_date) + b)

PresentReturns(rows) == Len(DropNa(Column(rows, "ret")))

OnlyMember(permno, industry) ==
  \A d \in DOMAIN firm_returns[permno] : Bucket(industry, d) = {permno}

(* C4 as stated: in 42 a bucket with zero or one member firm on a date     *)
(* gives a missing industry return for that date, and the industry         *)
(* adjusted CARs of a firm that is the only member of its bucket are null. *)
C4_SingletonIsMissing ==
  script = "42" =>
    \A i \in 1..Len(results) :
      LET r == results[i]
          merged == Merged(r.permno, r.industry, r.breach_date)
      IN  /\ \A k \in 1..Len(merged) :
               Cardinality(Bucket(r.industry, merged[k].date)) <= 1
                 => IsNull(merged[k].industry_return)
          /\ OnlyMember(r.permno, r.industry) =>
               /\ IsNull(r.car_5d_industry_adj)
               /\ IsNull(r.car_30d_industry_adj)

(* C5 as stated: in 07, 09 and 12 a populated stock record was computed    *)
(* with at least 5 observations before the aligned position and from the   *)
(* 5th of them counting back; position 0 never stands in for it.           *)
C5_PreWindowFifthDay ==
  /\ script = "07" =>
       \A i \in 1..Len(stock_metrics) :
         IF IsPyNone(stock_metrics[i]) THEN TRUE
         ELSE stock_metrics[i].has_stock_data =>
                LET hist == Hist07(breach_df[i].Map, Val(breach_df[i].breach_date))
                    breach_idx == BreachIdx07(hist, Val(breach_df[i].breach_date))
                IN  /\ breach_idx >= 5
                    /\ Pre5dIdx07(breach_idx) = breach_idx - 5
  /\ script = "09" =>
       \A i \in 1..Len(stock_metrics) :
         stock_metrics[i].has_stock_data =>
           LET w == BreachWindow09(History(breach_df[i].Map), Val(breach_df[i].breach_date))
           IN  Len(PreData09(w, BreachIdx09(w, Val(breach_df[i].breach_date)))) >= 5
  /\ script = "12" =>
       \A i \in 1..Len(stock_metrics) :
         (stock_metrics[i].has_stock_data /\ stock_metrics[i] # PriorStockRecord) =>
           LET w == Window12(History(breach_df[i].Map), Val(breach_df[i].breach_date))
           IN  Len(Before12(w, BreachIdx12(w, Val(breach_df[i].breach_date)))) >= 5

(* ceil(h / 2) *)
HalfHorizon(h) == (h + 1) \div 2

(* 20: the event has a ticker and a date and its +/-50 day window holds    *)
(* the 10 rows the alignment needs                                         *)
Aligned20(row) ==
  Valid(row) /\ Len(EventWindow(CrspMarket(row.Map), Val(row.breach_date))) >= 10

(* 20: the number of rows of the event window after the event position *)
DaysAfter20(row) ==
  LET w == EventWindow(CrspMarket(row.Map), Val(row.breach_date))
  IN  Len(w) - 1 - EventPos(w, Val(row.breach_date))

(* 09: the window holds 10 rows and 5 of them precede the aligned one *)
Aligned09(row) ==
  /\ Valid(row)
  /\ row.Map \in stock_cache
  /\ LET w == BreachWindow09(History(row.Map), Val(row.breach_date))
     IN  /\ Len(w) >= 10
         /\ Len(PreData09(w, BreachIdx09(w, Val(row.breach_date)))) >= 5

(* 09: the number of rows of the window after the aligned one *)
DaysAfter09(row) ==
  LET w == BreachWindow09(History(row.Map), Val(row.breach_date))
  IN  Len(PostData09(w, BreachIdx09(w, Val(row.breach_date))))

(* 42: the number of return rows of the firm after the breach date *)
DaysAfter42(row) ==
  Cardinality({ d \in DOMAIN firm_returns[row.permno] : d > row.breach_date })

(* C6 as stated: for an event that was aligned, the metrics of horizon h   *)
(* (5 or 30) are null exactly when fewer than ceil(h / 2) trading days     *)
(* follow the event position, each horizon on its own, in 20, 09 and 42.   *)
C6_PerHorizonHalf ==
  /\ script = "20" =>
       \A i \in 1..Len(event_returns) :
         Aligned20(breach_df[i]) =>
           /\ IsNull(event_returns[i].car_5d)
                <=> DaysAfter20(breach_df[i]) < HalfHorizon(5)
           /\ IsNull(event_returns[i].car_30d)
                <=> DaysAfter20(breach_df[i]) < HalfHorizon(30)
  /\ script = "09" =>
       \A i \in 1..Len(stock_metrics) :
         Aligned09(breach_df[i]) =>
           /\ IsNull(stock_metrics[i].return_5d_pct)
                <=> DaysAfter09(breach_df[i]) < HalfHorizon(5)
           /\ IsNull(stock_metrics[i].return_30d_pct)
                <=> DaysAfter09(breach_df[i]) < HalfHorizon(30)
  /\ script = "42" =>
       \A i \in 1..Len(results) :
         /\ IsNull(results[i].car_5d_industry_adj)
              <=> DaysAfter42(analysis_df[i]) < HalfHorizon(5)
         /\ IsNull(results[i].car_30d_industry_adj)
              <=> DaysAfter42(analysis_df[i]) < HalfHorizon(30)

(* 42: the number of return rows of the firm dated in [d - 1, d + 5] *)
RowsIn5d(row) ==
  Cardinality({ d \in DOMAIN firm_returns[row.permno] :
                  row.breach_date - 1 <= d /\ d <= row.breach_date + 5 })

(* C7 as stated: an event with exactly 3 trading days after the aligned    *)
(* date has its 5-day metrics null and its flag false (20), its 5-day      *)
(* industry adjusted CAR null (42).                                        *)
C7_ThreeDaysInsufficient ==
  /\ script = "20" =>
       \A i \in 1..Len(event_returns) :
         (Aligned20(breach_df[i]) /\ DaysAfter20(breach_df[i]) = 3) =>
           /\ ~event_returns[i].has_crsp_data
           /\ IsNull(event_returns[i].car_5d)
           /\ IsNull(event_returns[i].bhar_5d)
  /\ script = "42" =>
       \A i \in 1..Len(results) :
         DaysAfter42(analysis_df[i]) = 3 => IsNull(results[i].car_5d_industry_adj)

(* C7 as amended: with exactly 3 trading days after the aligned date, 20   *)
(* computes the 5-day metrics over the rows from the event to the last one *)
(* (the rows of the 30-day metrics, so the two horizons agree) and sets    *)
(* the flag; in 42 the 5-day CAR is present exactly when 3 or more return  *)
(* rows are dated in [d - 1, d + 5], so 3 rows after d inside the window   *)
(* are enough.                                                             *)
C7_ThreeDaysComputed ==
  /\ script = "20" =>
       \A i \in 1..Len(event_returns) :
         (Aligned20(breach_df[i]) /\ DaysAfter20(breach_df[i]) = 3) =>
           /\ event_returns[i].has_crsp_data
           /\ NotNull(event_returns[i].car_5d)
           /\ NotNull(event_returns[i].bhar_5d)
           /\ event_returns[i].car_5d = event_returns[i].car_30d
           /\ event_returns[i].bhar_5d = event_returns[i].bhar_30d
  /\ script = "42" =>
       \A i \in 1..Len(results) :
         NotNull(results[i].car_5d_industry_adj) <=> RowsIn5d(analysis_df[i]) >= 3

(* An event of 20 with 3 trading days after it, its flag set and a 5-day   *)
(* CAR that is not zero                                                    *)
C7_Witness ==
  /\ script = "20"
  /\ \E i \in 1..Len(event_returns) :
       /\ Aligned20(breach_df[i])
       /\ DaysAfter20(breach_df[i]) = 3
       /\ event_returns[i].has_crsp_data
       /\ Val(event_returns[i].car_5d) # 0

(* Day a of days is nearest to t, and no day as near as a is earlier *)
NearestEarlier(a, days, t) ==
  /\ a \in days
  /\ \A d \in days :
       \/ Abs(a - t) < Abs(d - t)
       \/ Abs(a - t) = Abs(d - t) /\ a <= d

(* The trading day each script aligns the event of the row to *)
AlignedDate20(row) ==
  LET w == EventWindow(CrspMarket(row.Map), Val(row.breach_date))
  IN  w[EventPos(w, Val(row.breach_date)) + 1].date
AlignedDate09(row) ==
  LET w == BreachWindow09(History(row.Map), Val(row.breach_date))
  IN  w[BreachIdx09(w, Val(row.breach_date)) + 1].date
AlignedDate07(row) ==
  LET hist == Hist07(row.Map, Val(row.breach_date))
  IN  hist[BreachIdx07(hist, Val(row.breach_date)) + 1].date

(* C8 as stated: whenever 20, 09 or 07 aligns an event, the aligned day is *)
(* a trading day of the series at the least calendar distance from the     *)
(* event date, the earlier one of two equidistant days.                    *)
C8_NearestTieEarlier ==
  /\ script = "20" =>
       \A i \in 1..Len(event_returns) :
         Aligned20(breach_df[i]) =>
           NearestEarlier(AlignedDate20(breach_df[i]), SeriesDays(breach_df[i]),
                          Val(breach_df[i].breach_date))
  /\ script = "09" =>
       \A i \in 1..Len(stock_metrics) :
         (/\ Valid(breach_df[i])
          /\ breach_df[i].Map \in stock_cache
          /\ Len(BreachWindow09(History(breach_df[i].Map),
                                Val(breach_df[i].breach_date))) >= 10) =>
           NearestEarlier(AlignedDate09(breach_df[i]), SeriesDays(breach_df[i]),
                          Val(breach_df[i].breach_date))
  /\ script = "07" =>
       \A i \in 1..Len(stock_metrics) :
         (/\ Valid(breach_df[i])
          /\ breach_df[i].Map \notin RaisingTickers
          /\ Hist07(breach_df[i].Map, Val(breach_df[i].breach_date)) # <<>>) =>
           NearestEarlier(AlignedDate07(breach_df[i]), SeriesDays(breach_df[i]),
                          Val(breach_df[i].breach_date))

(* The series of the row's ticker is empty or wholly more than 60 calendar *)
(* days away from the event date                                           *)
BeyondTolerance(row) ==
  \A d \in SeriesDays(row) : Abs(d - Val(row.breach_date)) > 60

(* C9: in 20 and 09 an event whose ticker has no rows, or only rows more   *)
(* than 60 calendar days from the event date, gets the no-data record      *)
(* (flag false, every metric null); and whenever the flag is true the day  *)
(* the event was aligned to is within 60 calendar days of the event date.  *)
C9_Tolerance ==
  /\ script = "20" =>
       \A i \in 1..Len(event_returns) :
         Valid(breach_df[i]) =>
           /\ BeyondTolerance(breach_df[i]) => event_returns[i] = NoCrspRecord
           /\ event_returns[i].has_crsp_data =>
                Abs(AlignedDate20(breach_df[i]) - Val(breach_df[i].breach_date)) <= 60
  /\ script = "09" =>
       \A i \in 1..Len(stock_metrics) :
         Valid(breach_df[i]) =>
           /\ BeyondTolerance(breach_df[i]) => stock_metrics[i] = NoStockRecord
           /\ stock_metrics[i].has_stock_data =>
                Abs(AlignedDate09(breach_df[i]) - Val(breach_df[i].breach_date)) <= 60

(* 09 has processed an event whose ticker has rows, all of them more than  *)
(* 60 days from the event date, and marked it as having no data            *)
C9_Witness ==
  /\ script = "09"
  /\ \E i \in 1..Len(stock_metrics) :
       /\ Valid(breach_df[i])
       /\ Cardinality(SeriesDays(breach_df[i])) >= 10
       /\ BeyondTolerance(breach_df[i])
       /\ stock_metrics[i] = NoStockRecord

(* 20: the dates of the rows the metrics of horizon h are computed over *)
WindowDays20(row, h) ==
  LET w == EventWindow(CrspMarket(row.Map), Val(row.breach_date))
      event_pos == EventPos(w, Val(row.breach_date))
  IN  { w[k + 1].date : k \in event_pos..Min(Len(w) - 1, event_pos + h) }

(* The firm and the market return are both present on each of the days *)
Complete20(row, days) ==
  \A d \in days : NotNull(market[row.Map][d].ret) /\ NotNull(market[row.Map][d].vwretd)

(* The sum over the days of (firm return - market return) of the same day *)
RECURSIVE AbnormalSum20(_, _)
AbnormalSum20(tbl, days) ==
  IF days = {} THEN 0
  ELSE LET d == CHOOSE x \in days : TRUE
       IN  (Frac(Val(tbl[d].ret)) - Frac(Val(tbl[d].vwretd)))
             + AbnormalSum20(tbl, days \ {d})

(* 42: the dates of the firm's return rows in [breach_date - 1, breach_date + h] *)
WindowDays42(row, h) ==
  { d \in DOMAIN firm_returns[row.permno] :
      row.breach_date - 1 <= d /\ d <= row.breach_date + h }

(* The industry return of a date, Null when the industry has no row or a   *)
(* missing mean on it                                                      *)
IndustryReturn(industry, d) ==
  LET r == IndustryReturnRow(industry, d)
  IN  IF NotNull(r) THEN Val(r).industry_return ELSE Null

Complete42(permno, industry, days) ==
  \A d \in days : NotNull(firm_returns[permno][d]) /\ NotNull(IndustryReturn(industry, d))

RECURSIVE AbnormalSum42(_, _, _)
AbnormalSum42(permno, industry, days) ==
  IF days = {} THEN 0
  ELSE LET d == CHOOSE x \in days : TRUE
       IN  (Frac(Val(firm_returns[permno][d])) - Val(IndustryReturn(industry, d)))
             + AbnormalSum42(permno, industry, days \ {d})

(* C10: a CAR that was computed over a window on whose days the firm and   *)
(* the benchmark return are both present equals 100 times the sum over     *)
(* exactly those days of (firm return - benchmark return of the same       *)
(* date): the market return in 20 (stored to 4 decimals), the industry     *)
(* return in 42.                                                           *)
C10_CarIsHundredTimesSum ==
  /\ script = "20" =>
       \A i \in 1..Len(event_returns) :
         event_returns[i].has_crsp_data =>
           LET row == breach_df[i]
               d5 == WindowDays20(row, 5)
               d30 == WindowDays20(row, 30)
           IN  /\ Complete20(row, d5) =>
                    Val(event_returns[i].car_5d)
                      = Round(100 * AbnormalSum20(market[row.Map], d5), 4)
               /\ Complete20(row, d30) =>
                    Val(event_returns[i].car_30d)
                      = Round(100 * AbnormalSum20(market[row.Map], d30), 4)
  /\ script = "42" =>
       \A i \in 1..Len(results) :
         LET r == results[i]
             d5 == WindowDays42(analysis_df[i], 5)
             d30 == WindowDays42(analysis_df[i], 30)
         IN  /\ (NotNull(r.car_5d_industry_adj) /\ Complete42(r.permno, r.industry, d5)) =>
                  Val(r.car_5d_industry_adj) = 100 * AbnormalSum42(r.permno, r.industry, d5)
             /\ (NotNull(r.car_30d_industry_adj) /\ Complete42(r.permno, r.industry, d30)) =>
                  Val(r.car_30d_industry_adj) = 100 * AbnormalSum42(r.permno, r.industry, d30)

(* 20 has computed an event with the whole 30-day horizon present and      *)
(* different, non-zero 5-day and 30-day CARs                               *)
C10_Witness ==
  /\ script = "20"
  /\ \E i \in 1..Len(event_returns) :
       /\ event_returns[i].has_crsp_data
       /\ Cardinality(WindowDays20(breach_df[i], 30)) = 31
       /\ Complete20(breach_df[i], WindowDays20(breach_df[i], 30))
       /\ Val(event_returns[i].car_5d) # 0
       /\ Val(event_returns[i].car_30d) # 0
       /\ event_returns[i].car_5d # event_returns[i].car_30d

(* The product over the days, in date order, of (1 + the return of the     *)
(* column), from the raw table                                             *)
RECURSIVE Growth20(_, _, _)
Growth20(tbl, col, days) ==
  IF days = {} THEN One
  ELSE LET last == CHOOSE d \in days : \A e \in days : e <= d
           before == Growth20(tbl, col, days \ {last})
       IN  before + RoundDiv(before * Val(tbl[last][col]), 100)

(* C11: a BHAR that 20 computed over a window on whose days the firm and   *)
(* the market return are both present equals, to 4 decimals, 100 times     *)
(* ((product of (1 + firm return) - 1) - (product of (1 + market return)   *)
(* - 1)), the products taken over the days of the CAR of the same horizon. *)
C11_BharCompounds ==
  script = "20" =>
    \A i \in 1..Len(event_returns) :
      event_returns[i].has_crsp_data =>
        LET row == breach_df[i]
            tbl == market[row.Map]
            d5 == WindowDays20(row, 5)
            d30 == WindowDays20(row, 30)
        IN  /\ Complete20(row, d5) =>
                 Val(event_returns[i].bhar_5d)
                   = Round(100 * ((Growth20(tbl, "ret", d5) - One)
                                    - (Growth20(tbl, "vwretd", d5) - One)), 4)
            /\ Complete20(row, d30) =>
                 Val(event_returns[i].bhar_30d)
                   = Round(100 * ((Growth20(tbl, "ret", d30) - One)
                                    - (Growth20(tbl, "vwretd", d30) - One)), 4)

(* 20 has computed an event over complete windows whose BHAR differs from  *)
(* its CAR at both horizons                                                *)
C11_Witness ==
  /\ script = "20"
  /\ \E i \in 1..Len(event_returns) :
       /\ event_returns[i].has_crsp_data
       /\ Complete20(breach_df[i], WindowDays20(breach_df[i], 30))
       /\ Cardinality(WindowDays20(breach_df[i], 30)) = 31
       /\ Val(event_returns[i].bhar_5d) # 0
       /\ event_returns[i].bhar_5d # event_returns[i].car_5d
       /\ event_returns[i].bhar_30d # event_returns[i].car_30d
       /\ event_returns[i].bhar_5d # event_returns[i].bhar_30d

(* The CRSP table with every firm return before the day moved by delta *)
PreShifted20(tbl, day, delta) ==
  [d \in DOMAIN tbl |->
     IF d < day /\ NotNull(tbl[d].ret)
     THEN [tbl[d] EXCEPT !.ret = Some(Val(tbl[d].ret) + delta)]
     ELSE tbl[d]]

(* The price history with every Close before the day moved by delta *)
PreShiftedClose(hist, day, delta) ==
  [d \in DOMAIN hist |->
     IF d < day THEN [hist[d] EXCEPT !.Close = hist[d].Close + delta] ELSE hist[d]]

(* C12 as stated: the record of an aligned event is the record the script  *)
(* computes after every observation before the aligned day is changed      *)
(* (the dates, and so the aligned position, kept), in 20, 09 and 07.       *)
C12_AnchoredAtEvent ==
  /\ script = "20" =>
       \A i \in 1..Len(event_returns) :
         Aligned20(breach_df[i]) =>
           \A delta \in {-1, 1} :
             LET row == breach_df[i]
                 returns == calculate_event_returns(row.Map, Val(row.breach_date),
                              MergeMarket(PreShifted20(market[row.Map],
                                                       AlignedDate20(row), delta)))
             IN  event_returns[i] = IF NotNull(returns) THEN Val(returns) ELSE NoCrspRecord
  /\ script = "09" =>
       \A i \in 1..Len(stock_metrics) :
         (/\ Valid(breach_df[i])
          /\ breach_df[i].Map \in stock_cache
          /\ Len(BreachWindow09(History(breach_df[i].Map),
                                Val(breach_df[i].breach_date))) >= 10) =>
           \A delta \in {-1, 1} :
             LET row == breach_df[i]
             IN  stock_metrics[i]
                   = breach_returns_09(PreShiftedClose(History(row.Map),
                                                       AlignedDate09(row), delta),
                                       Val(row.breach_date))
  /\ script = "07" =>
       \A i \in 1..Len(stock_metrics) :
         (/\ Valid(breach_df[i])
          /\ breach_df[i].Map \notin RaisingTickers
          /\ Hist07(breach_df[i].Map, Val(breach_df[i].breach_date)) # <<>>) =>
           \A delta \in {-1, 1} :
             LET row == breach_df[i]
                 hist == RowsIn(PreShiftedClose(History(row.Map),
                                                AlignedDate07(row), delta),
                                Val(row.breach_date) - (30 + 10),
                                Val(row.breach_date) + (30 + 10) - 1)
             IN  stock_metrics[i] = breach_returns_07(hist, Val(row.breach_date))

(* The n earliest days of a set (all of them when it has fewer) *)
RECURSIVE Earliest(_, _)
Earliest(days, n) ==
  IF n = 0 \/ days = {} THEN {}
  ELSE LET first == CHOOSE d \in days : \A e \in days : d <= e
       IN  {first} \cup Earliest(days \ {first}, n - 1)

(* 20: the days of the ticker from the aligned day to the end of the       *)
(* +/-50 day window                                                        *)
PostDays20(row) ==
  LET aligned == AlignedDate20(row)
  IN  { d \in SeriesDays(row) : aligned <= d /\ d <= Val(row.breach_date) + 50 }

(* C13 as stated: car_5d is the sum of the abnormal returns of the first 5 *)
(* trading days from the start position of car_30d (5 observations         *)
(* whenever 5 are available), in 20 and in 42.                             *)
C13_FirstFiveDays ==
  /\ script = "20" =>
       \A i \in 1..Len(event_returns) :
         (event_returns[i].has_crsp_data
            /\ Complete20(breach_df[i], PostDays20(breach_df[i]))) =>
           Val(event_returns[i].car_5d)
             = Round(100 * AbnormalSum20(market[breach_df[i].Map],
                                         Earliest(PostDays20(breach_df[i]), 5)), 4)
  /\ script = "42" =>
       \A i \in 1..Len(results) :
         LET r == results[i]
             d30 == WindowDays42(analysis_df[i], 30)
         IN  (NotNull(r.car_5d_industry_adj) /\ Complete42(r.permno, r.industry, d30)) =>
               Val(r.car_5d_industry_adj)
                 = 100 * AbnormalSum42(r.permno, r.industry, Earliest(d30, 5))

(* C13 as amended: in 20 car_5d sums the abnormal returns of the aligned   *)
(* day and the 5 trading days after it, car_30d those of the aligned day   *)
(* and the 30 after it, both from the aligned day of the same sorted       *)
(* window: 6 observations whenever 5 days follow the event, all the        *)
(* remaining ones otherwise.  In 42 the rows of car_5d are the leading     *)
(* rows of the rows of car_30d: those dated up to breach_date + 5.         *)
C13_SixDayPrefix ==
  /\ script = "20" =>
       \A i \in 1..Len(event_returns) :
         event_returns[i].has_crsp_data =>
           LET row == breach_df[i]
               d30 == Earliest(PostDays20(row), 31)
               d5 == Earliest(d30, 6)
           IN  /\ Cardinality(d5) = Min(6, DaysAfter20(row) + 1)
               /\ Complete20(row, d30) =>
                    /\ Val(event_returns[i].car_5d)
                         = Round(100 * AbnormalSum20(market[row.Map], d5), 4)
                    /\ Val(event_returns[i].car_30d)
                         = Round(100 * AbnormalSum20(market[row.Map], d30), 4)
  /\ script = "42" =>
       \A i \in 1..Len(results) :
         LET row == analysis_df[i]
             merged == Merged(row.permno, results[i].industry, row.breach_date)
             car_5d_data == Car5dData(merged, row.breach_date)
         IN  /\ car_5d_data = SubSeq(merged, 1, Len(car_5d_data))
             /\ Len(car_5d_data) = RowsIn5d(row)
             /\ \A k \in (Len(car_5d_data) + 1)..Len(merged) :
                  merged[k].date > row.breach_date + 5

(* 20 has computed an event that 30 trading days follow, over a complete   *)
(* window, whose car_5d is not the sum of the first 5 abnormal returns     *)
C13_Witness ==
  /\ script = "20"
  /\ \E i \in 1..Len(event_returns) :
       /\ event_returns[i].has_crsp_data
       /\ DaysAfter20(breach_df[i]) >= 30
       /\ Complete20(breach_df[i], PostDays20(breach_df[i]))
       /\ Val(event_returns[i].car_5d)
            # Round(100 * AbnormalSum20(market[breach_df[i].Map],
                                        Earliest(PostDays20(breach_df[i]), 5)), 4)

(* The ticker of the row has 15 consecutive days, the firm return 0.00 on  *)
(* the first ten and 0.01 on the last five, the market return 0.00 on all, *)
(* and the event is aligned at zero-based index 10                         *)
StepInput(row) ==
  /\ Aligned20(row)
  /\ LET tbl == market[row.Map]
         days == DOMAIN tbl
     IN  /\ Cardinality(days) = 15
         /\ \E first \in days :
              /\ days = first..(first + 14)
              /\ AlignedDate20(row) = first + 10
              /\ \A d \in days :
                   /\ tbl[d].vwretd = Some(0)
                   /\ tbl[d].ret = IF d < first + 10 THEN Some(0) ELSE Some(1)

(* C14: for that input 20 stores car_5d = 5.00 and bhar_5d = 5.1010 with   *)
(* has_crsp_data true, so the two differ.                                  *)
C14_EndToEnd ==
  script = "20" =>
    \A i \in 1..Len(event_returns) :
      StepInput(breach_df[i]) =>
        /\ event_returns[i].has_crsp_data
        /\ event_returns[i].car_5d = Some(5 * One)
        /\ event_returns[i].bhar_5d = Some(51010 * (One \div 10^4))
        /\ event_returns[i].car_5d # event_returns[i].bhar_5d

(* 20 has processed the event of that input *)
C14_Witness ==
  /\ script = "20"
  /\ \E i \in 1..Len(event_returns) :
       StepInput(breach_df[i]) /\ event_returns[i].has_crsp_data

(* The firm return is present and equal to the market return on each day *)
SameReturns(row, days) ==
  \A d \in days : /\ NotNull(market[row.Map][d].ret)
                  /\ market[row.Map][d].ret = market[row.Map][d].vwretd

(* C15: when the firm return equals the market return on every day of the *)
(* window of a horizon, 20 stores 0 for the CAR and for the BHAR of that   *)
(* horizon.                                                                *)
C15_Identity ==
  script = "20" =>
    \A i \in 1..Len(event_returns) :
      event_returns[i].has_crsp_data =>
        /\ SameReturns(breach_df[i], WindowDays20(breach_df[i], 5)) =>
             /\ event_returns[i].car_5d = Some(0)
             /\ event_returns[i].bhar_5d = Some(0)
        /\ SameReturns(breach_df[i], WindowDays20(breach_df[i], 30)) =>
             /\ event_returns[i].car_30d = Some(0)
             /\ event_returns[i].bhar_30d = Some(0)

(* 20 has computed an event whose firm and market returns agree on all 31  *)
(* days of the 30-day window and are not all zero                          *)
C15_Witness ==
  /\ script = "20"
  /\ \E i \in 1..Len(event_returns) :
       LET d30 == WindowDays20(breach_df[i], 30)
       IN  /\ event_returns[i].has_crsp_data
           /\ Cardinality(d30) = 31
           /\ SameReturns(breach_df[i], d30)
           /\ \E d \in d30 : Val(market[breach_df[i].Map][d].ret) # 0
           /\ event_returns[i].car_30d = Some(0)

BenchmarkGap(row, days) == \E d \in days : IsNull(market[row.Map][d].vwretd)

(* C17 as stated: in 20 the CAR and the BHAR of a horizon are null when    *)
(* the market return is missing on a day of its window, and the volatility *)
(* of the event is computed from the firm returns all the same.            *)
C17_MissingBenchmarkInsufficient ==
  script = "20" =>
    /\ \A i \in 1..Len(event_returns) :
         Aligned20(breach_df[i]) =>
           /\ BenchmarkGap(breach_df[i], WindowDays20(breach_df[i], 5)) =>
                /\ IsNull(event_returns[i].car_5d)
                /\ IsNull(event_returns[i].bhar_5d)
           /\ BenchmarkGap(breach_df[i], WindowDays20(breach_df[i], 30)) =>
                /\ IsNull(event_returns[i].car_30d)
                /\ IsNull(event_returns[i].bhar_30d)
    /\ \A i \in 1..Len(volatility_metrics) :
         (/\ Valid(breach_df[i])
          /\ Len(RowsAround(breach_df[i], -40, -1)) >= 10
          /\ Len(RowsAround(breach_df[i], 0, 30)) >= 10
          /\ PresentReturns(RowsAround(breach_df[i], -40, -1)) >= 2
          /\ PresentReturns(RowsAround(breach_df[i], 0, 30)) >= 2) =>
           /\ NotNull(volatility_metrics[i].return_volatility_pre)
           /\ NotNull(volatility_metrics[i].return_volatility_post)
           /\ NotNull(volatility_metrics[i].volatility_change)

(* Exactly one of the firm return and the market return of the day is      *)
(* missing (20)                                                            *)
OneSided20(row, d) ==
  IsNull(market[row.Map][d].ret) # IsNull(market[row.Map][d].vwretd)

(* Exactly one of the firm return and the industry return of the day is    *)
(* missing (42)                                                            *)
OneSided42(permno, industry, d) ==
  IsNull(firm_returns[permno][d]) # IsNull(IndustryReturn(industry, d))

(* C18 as stated: a CAR that was computed has no day in its window on      *)
(* which exactly one of the firm return and the benchmark return is        *)
(* missing, such a day adding 0 to the sum, in 20 and in 42.               *)
C18_ZeroOnlyWhenBothMissing ==
  /\ script = "20" =>
       \A i \in 1..Len(event_returns) :
         /\ NotNull(event_returns[i].car_5d) =>
              \A d \in WindowDays20(breach_df[i], 5) : ~OneSided20(breach_df[i], d)
         /\ NotNull(event_returns[i].car_30d) =>
              \A d \in WindowDays20(breach_df[i], 30) : ~OneSided20(breach_df[i], d)
  /\ script = "42" =>
       \A i \in 1..Len(results) :
         LET r == results[i]
         IN  /\ NotNull(r.car_5d_industry_adj) =>
                  \A d \in WindowDays42(analysis_df[i], 5) :
                    ~OneSided42(r.permno, r.industry, d)
             /\ NotNull(r.car_30d_industry_adj) =>
                  \A d \in WindowDays42(analysis_df[i], 30) :
                    ~OneSided42(r.permno, r.industry, d)


(* The state of event i of the batch, read off the position of the script: *)
(* a row with its record appended is Computed or Failed by the record's    *)
(* flag; the row the call is working on is where pc says; the rows not yet *)
(* reached are Pending.                                                    *)
EventRecords == IF script = "20" THEN event_returns ELSE stock_metrics

HasData(r) == IF script = "20" THEN r.has_crsp_data ELSE r.has_stock_data

EventState(i) ==
  IF i <= Len(EventRecords)
  THEN IF HasData(EventRecords[i]) THEN "Computed" ELSE "Failed"
  ELSE IF i = idx /\ pc = "aligned" THEN "Aligned"
  ELSE IF i = idx /\ pc = "window_extracted" THEN "WindowExtracted"
  ELSE "Pending"

Terminal == {"Computed", "Failed"}

Moves ==
  { <<"Pending", "Aligned">>, <<"Aligned", "WindowExtracted">>,
    <<"WindowExtracted", "Computed">>, <<"Pending", "Failed">>,
    <<"Aligned", "Failed">>, <<"WindowExtracted", "Failed">> }

(* At most one event moves in a step, and only along an edge of Moves *)
EventMove ==
  /\ \A i \in 1..Len(breach_df) :
       EventState(i)' # EventState(i) => <<EventState(i), EventState(i)'>> \in Moves
  /\ Cardinality({ i \in 1..Len(breach_df) : EventState(i)' # EventState(i) }) <= 1

(* At every position before the end a statement of the script can run *)
CanStep ==
  \/ Ended
  \/ script = "20" /\ pc \in {"event_returns", "volatility"}
  \/ script = "09" /\ pc = "stock"
  \/ /\ pc \in {"aligned", "window_extracted"}
     /\ idx \in 1..Len(breach_df)
     /\ Len(EventRecords) = idx - 1

(* The record a finished event carries is the one the whole call returns *)
RecordsAgree ==
  \A i \in 1..Len(EventRecords) :
    EventRecords[i] = IF script = "20" THEN EventReturnsRecord(breach_df[i])
                      ELSE StockRecord09(breach_df[i])

(* C19: in 20 and 09 every event of the batch starts Pending; a step moves *)
(* at most one event, and only along Pending -> Aligned -> WindowExtracted *)
(* -> Computed or from one of the first three to Failed, so Computed and   *)
(* Failed are never left and no state is skipped or entered twice; the     *)
(* record of a finished event is the record of the whole call; and every   *)
(* event of the batch ends, for good, Computed or Failed.                  *)
C19_StateMachine ==
  /\ \A i \in 1..Len(breach_df) : EventState(i) = "Pending"
  /\ [][EventMove /\ Advance]_vars
  /\ []CanStep
  /\ []RecordsAgree
  /\ <>[](\A i \in 1..Len(breach_df) : EventState(i) \in Terminal)

(* A batch of two valid events: the first failed on its data, the second   *)
(* passed the alignment and the window checks                              *)
C19_Witness ==
  /\ Len(breach_df) = 2
  /\ breach_df[1].Map # NoTicker /\ NotNull(breach_df[1].breach_date)
  /\ EventState(1) = "Failed"
  /\ EventState(2) = "WindowExtracted"

(* The conditions under which a script has nothing to work on: the event   *)
(* list is empty, or the returns table has no row                          *)
EmptyEventList ==
  \/ script = "20" /\ breach_df = <<>>
  \/ script = "42" /\ analysis_df = <<>>

NoReturnData == script = "20" /\ \A t \in Tickers : DOMAIN market[t] = {}

FatalCondition == EmptyEventList \/ NoReturnData

(* The script ended through an exception: a traceback, or the SystemExit   *)
(* of exit()                                                               *)
Surfaced == pc \in {"raised", "exited"}

(* Every event of the batch has its result record *)
AllAbsorbed ==
  \/ script = "20" /\ Len(event_returns) = Len(breach_df)
  \/ script = "42" /\ Len(results) = Len(analysis_df)

(* C20: when 20 or 42 has ended, it ended through an exception exactly     *)
(* when the event list was empty or no return data was supplied, and       *)
(* otherwise it ran to its last statement with a result record for every   *)
(* event.                                                                  *)
C20_FatalOnlySurfaced ==
  (script \in {"20", "42"} /\ pc \in {"done", "raised", "exited"})
    => /\ Surfaced <=> FatalCondition
       /\ ~FatalCondition => (pc = "done" /\ AllAbsorbed)

(* pre_index < event_index <= post_5d_index <= post_30d_index, all four    *)
(* positions of a series of n rows                                         *)
WindowOk(pre, ev, p5, p30, n) ==
  /\ 0 <= pre /\ pre < ev
  /\ ev <= p5 /\ p5 <= p30
  /\ p30 <= n - 1

(* The record holds computed metrics *)
StockComputed(r) == IF IsPyNone(r) THEN FALSE ELSE r.has_stock_data

WindowOk07(row) ==
  LET hist == Hist07(row.Map, Val(row.breach_date))
      breach_idx == BreachIdx07(hist, Val(row.breach_date))
  IN  WindowOk(Pre5dIdx07(breach_idx), breach_idx, Post5dIdx07(hist, breach_idx),
               Post30dIdx07(hist, breach_idx), Len(hist))

WindowOk08(row) ==
  LET hist == Hist08(row.Map, Val(row.breach_date))
      breach_idx == BreachIdx08(hist, Val(row.breach_date))
  IN  WindowOk(PreIdx08(breach_idx), breach_idx, Post5dIdx08(hist, breach_idx),
               Post30dIdx08(hist, breach_idx), Len(hist))

(* 20 takes no position before the event: its window starts at event_pos *)
WindowOk20(row) ==
  LET event_window == EventWindow(CrspMarket(row.Map), Val(row.breach_date))
      event_pos == EventPos(event_window, Val(row.breach_date))
      post_5d == Post5d(event_window, event_pos)
      post_30d == Post30d(event_window, event_pos)
  IN  /\ 0 <= event_pos
      /\ event_pos <= post_5d /\ post_5d <= post_30d
      /\ post_30d <= Len(event_window) - 1

(* C21: in 07, 08 and 20 every record that holds computed metrics was      *)
(* computed from positions with pre_index < event_index <= post_5d_index   *)
(* <= post_30d_index, all inside the series (20, which has no pre_index:   *)
(* event_pos <= post_5d <= post_30d inside the window); a window that      *)
(* fails this yields the record without metrics.                           *)
C21_WindowIndexInvariant ==
  /\ script = "07" =>
       \A i \in 1..Len(stock_metrics) :
         StockComputed(stock_metrics[i]) => WindowOk07(breach_df[i])
  /\ script = "08" =>
       \A i \in 1..Len(stock_metrics) :
         StockComputed(stock_metrics[i]) => WindowOk08(breach_df[i])
  /\ script = "20" =>
       \A i \in 1..Len(event_returns) :
         event_returns[i].has_crsp_data => WindowOk20(breach_df[i])

(* The offset min(h, last_available_offset) after the event position *)
HorizonEnd(h, last_offset) == Min(h, last_offset)

(* 20: the offsets of post_5d and post_30d from event_pos agree with the   *)
(* horizons 5 and 30                                                       *)
PostEnds20(row) ==
  LET event_window == EventWindow(CrspMarket(row.Map), Val(row.breach_date))
      event_pos == EventPos(event_window, Val(row.breach_date))
      last_offset == Len(event_window) - 1 - event_pos
  IN  /\ Post5d(event_window, event_pos) - event_pos = HorizonEnd(5, last_offset)
      /\ Post30d(event_window, event_pos) - event_pos = HorizonEnd(30, last_offset)

(* 09: post_data starts one row after the event, so its position k is the  *)
(* offset k + 1                                                            *)
PostEnds09(row) ==
  LET breach_window == BreachWindow09(History(row.Map), Val(row.breach_date))
      breach_idx == BreachIdx09(breach_window, Val(row.breach_date))
      post_data == PostData09(breach_window, breach_idx)
      last_offset == Len(post_data)
  IN  /\ Post5dPos09(post_data) + 1 = HorizonEnd(5, last_offset)
      /\ Post30dPos09(post_data) + 1 = HorizonEnd(30, last_offset)

(* 12: after starts at the event row, so its position k is the offset k *)
PostEnds12(row) ==
  LET window == Window12(History(row.Map), Val(row.breach_date))
      breach_idx == BreachIdx12(window, Val(row.breach_date))
      after == After12(window, breach_idx)
      last_offset == Len(after) - 1
  IN  /\ Post5dPos12(after) = HorizonEnd(5, last_offset)
      /\ Post30dPos12(after) = HorizonEnd(30, last_offset)

(* The rows 12 has recomputed so far *)
Updated12(i) ==
  /\ i < idx
  /\ stock_metrics[i].has_stock_data
  /\ stock_metrics[i] # PriorStockRecord

(* C22: in 20, 09 and 12 the price or window end taken for the horizons 5  *)
(* and 30 of a computed record lies at offset min(h, last available        *)
(* offset) after the event position.                                       *)
C22_PostWindowEnd ==
  /\ script = "20" =>
       \A i \in 1..Len(event_returns) :
         event_returns[i].has_crsp_data => PostEnds20(breach_df[i])
  /\ script = "09" =>
       \A i \in 1..Len(stock_metrics) :
         stock_metrics[i].has_stock_data => PostEnds09(breach_df[i])
  /\ script = "12" =>
       \A i \in 1..Len(stock_metrics) :
         Updated12(i) => PostEnds12(breach_df[i])

Industries ==
  {"Technology", "Communications", "Financial", "Healthcare", "Retail",
   "Manufacturing", "Other"}

(* The firm's forward-filled assignment on date d: the label of its most   *)
(* recent firm_industries row dated at or before d, Null when there is none *)
ForwardFilled(permno, d) ==
  LET rows == { r \in FirmIndustries : r.permno = permno /\ r.date <= d }
  IN  IF rows = {} THEN Null ELSE Some(LatestRow(rows).industry)

(* The firms with a return row on d that are assigned to the industry on d *)
Assigned(industry, d) ==
  { f \in DOMAIN firm_returns :
      d \in DOMAIN firm_returns[f] /\ ForwardFilled(f, d) = Some(industry) }

(* The arithmetic mean of the present returns of date d over the firms *)
MeanRet(fs, d) ==
  LET present == { f \in fs : NotNull(firm_returns[f][d]) }
  IN  IF present = {} THEN Null
      ELSE Some(RoundDiv(SumRet(present, d), Cardinality(present)))

ReturnDates == UNION { DOMAIN firm_returns[f] : f \in DOMAIN firm_returns }

(* C23: for every industry label and date the row of industry_returns is   *)
(* the mean of the date's returns of all firms whose forward-filled        *)
(* assignment on the date is that label, and there is no row exactly when  *)
(* no firm is assigned.                                                    *)
C23_EqualWeightedBenchmark ==
  script = "42" =>
    \A industry \in Industries, d \in ReturnDates :
      LET row == IndustryReturnRow(industry, d)
          firms == Assigned(industry, d)
      IN  IF firms = {} THEN IsNull(row)
          ELSE /\ NotNull(row)
               /\ Val(row).industry_return = MeanRet(firms, d)

(* The dates of the rows of merged: the firm's return dates in             *)
(* [breach_date - 1, breach_date + 30]                                     *)
MergedDates(permno, breach_date) ==
  { d \in DOMAIN firm_returns[permno] : breach_date - 1 <= d /\ d <= breach_date + 30 }

(* The label used for the event is the most recent assignment at or before *)
(* the event date                                                          *)
LookupIsForwardFill(r) ==
  NotNull(ForwardFilled(r.permno, r.breach_date)) =>
    r.industry = Val(ForwardFilled(r.permno, r.breach_date))

(* The label used for the event is the label the firm's returns carry in   *)
(* the benchmark on every date of the window on which they carry one       *)
SameLabelAsGrouping(r) ==
  \A d \in MergedDates(r.permno, r.breach_date) :
    NotNull(ReturnRowIndustry(r.permno, d)) =>
      ReturnRowIndustry(r.permno, d) = Some(r.industry)

(* C24: in 42 the industry recorded for an event is the label of the       *)
(* firm's most recent assignment at or before the breach date, and it is   *)
(* the label under which the firm's returns were grouped into the          *)
(* benchmark on every date of the event's window.                          *)
C24_ForwardFillLookup ==
  script = "42" =>
    \A i \in 1..Len(results) :
      LookupIsForwardFill(results[i]) /\ SameLabelAsGrouping(results[i])

(* The ranges listed in sic_to_industry, by label *)
InRange(label, c) ==
  CASE label = "Technology" ->
         (3570 <= c /\ c <= 3579) \/ (3600 <= c /\ c <= 3679) \/ (7370 <= c /\ c <= 7379)
    [] label = "Communications" -> 4800 <= c /\ c <= 4899
    [] label = "Financial" -> 6000 <= c /\ c <= 6999
    [] label = "Healthcare" -> (2830 <= c /\ c <= 2839) \/ (8000 <= c /\ c <= 8099)
    [] label = "Retail" -> 5200 <= c /\ c <= 5999
    [] label = "Manufacturing" -> 2000 <= c /\ c <= 3999
    [] OTHER -> FALSE

(* C25: every classified row carries exactly one of the seven labels; a    *)
(* missing code and every code outside the listed ranges carry Other; a    *)
(* code in a listed range carries the label of that range, the specific    *)
(* label (Technology, Healthcare) where the range is nested inside the     *)
(* Manufacturing range; and equal codes carry equal labels.                *)
C25_IndustryMapping ==
  \A i \in 1..Len(results) :
    LET r == results[i]
    IN  /\ r.industry \in Industries
        /\ IsNull(r.siccd) => r.industry = "Other"
        /\ NotNull(r.siccd) =>
             LET c == Val(r.siccd)
             IN  /\ (\A l \in Industries : ~InRange(l, c)) => r.industry = "Other"
                 /\ \A l \in Industries \ {"Manufacturing"} :
                      InRange(l, c) => r.industry = l
                 /\ (InRange("Manufacturing", c) /\ ~InRange("Technology", c)
                       /\ ~InRange("Healthcare", c)) => r.industry = "Manufacturing"
        /\ \A j \in 1..Len(results) :
             results[j].siccd = r.siccd => results[j].industry = r.industry

(* Both rows are classified: a code of a nested range with its specific    *)
(* label next to a row without a code                                      *)
C25_Witness ==
  /\ pc = "done"
  /\ Len(results) = 2
  /\ results[1].siccd = Some(3600) /\ results[1].industry = "Technology"
  /\ results[2].siccd = Null /\ results[2].industry = "Other"

(* industry_returns of one (date, industry) when firm_returns is           *)
(* downloaded for the firms fs only (lines 163-169, 177-191)               *)
IndustryReturnAmong(fs, industry, d) ==
  LET grp == Bucket(industry, d) \cap fs
      present == { f \in grp : NotNull(firm_returns[f][d]) }
  IN  IF grp = {} \/ present = {} THEN Null
      ELSE Some(RoundDiv(SumRet(present, d), Cardinality(present)))

(* merged (lines 234-241) against the benchmark of the firms fs *)
MergedAmong(fs, permno, industry, breach_date) ==
  LET ds == DatesIn(firm_returns[permno], breach_date - 1, breach_date + 30)
  IN  [i \in 1..Len(ds) |->
         LET industry_return == IndustryReturnAmong(fs, industry, ds[i])
         IN  [ date |-> ds[i],
               ret |-> firm_returns[permno][ds[i]],
               industry_return |-> industry_return,
               abnormal_return |->
                 IF NotNull(firm_returns[permno][ds[i]]) /\ NotNull(industry_return)
                 THEN Some(Frac(Val(firm_returns[permno][ds[i]])) - Val(industry_return))
                 ELSE Null ]]

(* The dict of lines 263-273 for a row when the batch holds the firms fs *)
IndustryResultAmong(fs, i, row) ==
  LET industry == FirmIndustry(row.permno, row.breach_date)
      merged == MergedAmong(fs, row.permno, industry, row.breach_date)
      car_5d_data == Car5dData(merged, row.breach_date)
  IN  [ breach_id |-> i - 1,
        permno |-> row.permno,
        breach_date |-> row.breach_date,
        industry |-> industry,
        car_5d_industry_adj |->
          IF Len(car_5d_data) >= 3 THEN Some(CarSum(car_5d_data)) ELSE Null,
        car_30d_industry_adj |->
          IF Len(merged) >= 15 THEN Some(CarSum(merged)) ELSE Null ]

(* 09: the record of a row when the cache is built for that row alone *)
StockRecordAlone09(row) ==
  IF row.Map = NoTicker \/ IsNull(row.breach_date) THEN NoStockRecord
  ELSE IF row.Map \notin StockCache09(<<row>>) THEN NoStockRecord
  ELSE breach_returns_09(History(row.Map), Val(row.breach_date))

(* No step of 09 or 42 changes the return cache, the downloaded returns or *)
(* the classifications                                                     *)
SharedDataUntouched ==
  [][(script \in {"09", "42"}) =>
       (/\ stock_cache' = stock_cache
        /\ market' = market
        /\ firm_returns' = firm_returns
        /\ firm_industries' = firm_industries)]_vars

(* 09: every record is the one its row gets in a batch of its own *)
Batch09Independent ==
  script = "09" =>
    \A i \in 1..Len(stock_metrics) :
      stock_metrics[i] = StockRecordAlone09(breach_df[i])

(* C26: in 09 and in 42 the record of every processed event is the record  *)
(* the event gets from the same input series when it is the only event of  *)
(* the batch, whatever the other events of the batch are and wherever the  *)
(* event stands in it.                                                     *)
C26_RecordIndependentOfBatch ==
  /\ Batch09Independent
  /\ script = "42" =>
       \A i \in 1..Len(results) :
         results[i] = IndustryResultAmong({analysis_df[i].permno}, i, analysis_df[i])

(* The number of rows with CRSP data among the first k rows of the base    *)
(* dataset: the place in results of the record computed for row k          *)
RankInResults(k) == Len(CrspRows(SubSeq(base_df, 1, k)))

(* C27: after 51 has merged, every row of the base dataset that has CRSP   *)
(* data carries the record 42 computed for it, and every other row carries *)
(* none.                                                                   *)
C27_BreachIdSameBreach ==
  script = "51" =>
    \A k \in 1..Len(merged_df) :
      merged_df[k].enrichment =
        IF base_df[k].has_crsp_data THEN Some(results[RankInResults(k)]) ELSE Null

(* The rows of df whose has_stock_data goes from False to True in a step *)
NewlyCovered ==
  { i \in 1..Len(stock_metrics) :
      ~stock_metrics[i].has_stock_data /\ stock_metrics'[i].has_stock_data }

(* One step of 12 seen from the rows of df *)
UpdateFrame12 ==
  /\ Len(stock_metrics') = Len(stock_metrics)
  /\ \A i \in 1..Len(stock_metrics) :
       /\ stock_metrics[i].has_stock_data => stock_metrics'[i] = stock_metrics[i]
       /\ stock_metrics'[i] # stock_metrics[i] =>
            /\ breach_df[i].Map \in stock_cache
            /\ NotNull(breach_df[i].breach_date)
            /\ LET returns == get_breach_returns_12(breach_df[i].Map,
                                                    Val(breach_df[i].breach_date),
                                                    History(breach_df[i].Map))
               IN  NotNull(returns) /\ stock_metrics'[i] = Val(returns)
  /\ updates_made' = updates_made + Cardinality(NewlyCovered)

(* C28: updates_made starts at 0, and in every step of the update loop of  *)
(* 12 a row that has stock data keeps all its columns, a row changes only  *)
(* when its ticker is in recovered_data and get_breach_returns returns a   *)
(* result (which becomes the row), and updates_made grows by the number of *)
(* rows whose has_stock_data went from False to True.                      *)
C28_RecoveryUpdateFrame ==
  /\ script = "12" => updates_made = 0
  /\ [][(script = "12") => UpdateFrame12]_vars

(* The loop is over a dataset with a row that had stock data and kept it   *)
(* and a row that was recovered and counted                                *)
C28_Witness ==
  /\ script = "12"
  /\ pc = "done"
  /\ updates_made = 1
  /\ Len(stock_metrics) = 2
  /\ stock_metrics[1] = PriorStockRecord
  /\ breach_df[1].Map \in stock_cache
  /\ stock_metrics[2].has_stock_data
  /\ stock_metrics[2] # PriorStockRecord

(* Everything run_all runs when nothing stops it *)
FullRun == Scripts \o <<"verify_outputs", "verify_dashboard">>

(* subprocess.run raised for one of the scripts *)
SomeRaises == \E k \in 1..Len(Scripts) : returncode[k] = "raises"

(* The first script for which subprocess.run raises *)
FirstRaising == CHOOSE k \in 1..Len(Scripts) :
                  returncode[k] = "raises" /\ \A j \in 1..(k - 1) : returncode[j] # "raises"

(* What was run is the beginning of the fixed order *)
InOrder ==
  Len(executed) <= Len(FullRun) /\ executed = SubSeq(FullRun, 1, Len(executed))

(* C29 as stated: when run_all.py has ended, either verify_data failed,    *)
(* nothing was run and run_all returned False, or 01, 02, 03, 04,          *)
(* verify_outputs and verify_dashboard were run once each in this order    *)
(* and run_all returned True with exit status 0, whatever the scripts'     *)
(* statuses.                                                               *)
C29_RunAll ==
  (script = "run_all" /\ pc = "exited") =>
    IF ~required_present
    THEN executed = <<>> /\ success = Some(FALSE)
    ELSE executed = FullRun /\ success = Some(TRUE) /\ exit_status = Some(0)

(* The end of run_all.py, with the case of subprocess.run raising *)
EndOfRunAll ==
  (script = "run_all" /\ pc = "exited") =>
    IF ~required_present
    THEN executed = <<>> /\ success = Some(FALSE) /\ exit_status = Some(1)
    ELSE IF SomeRaises
    THEN /\ executed = SubSeq(Scripts, 1, FirstRaising - 1)
         /\ success = Null
         /\ exit_status = Some(1)
    ELSE executed = FullRun /\ success = Some(TRUE) /\ exit_status = Some(0)

(* C29 amended: run_all.py always ends; what it has run is at every moment *)
(* a beginning of 01, 02, 03, 04, verify_outputs, verify_dashboard; when   *)
(* verify_data fails nothing is run, run_all returns False and the exit    *)
(* status is 1; when subprocess.run raises for a script, the scripts       *)
(* before it were run, nothing after it is, and the exit status is 1;      *)
(* otherwise all six were run once each, run_all returned True and the     *)
(* exit status is 0, also when every script ended with a status other      *)
(* than 0.                                                                 *)
C29_RunAllUnlessRaised ==
  /\ [](script = "run_all" => InOrder)
  /\ []EndOfRunAll
  /\ <>(pc = "exited")

(* Every script ended with a status other than 0, all six steps were run   *)
(* and the exit status is 0                                                *)
C29_Witness ==
  /\ script = "run_all"
  /\ pc = "exited"
  /\ \A k \in 1..Len(Scripts) : returncode[k] = "nonzero"
  /\ executed = FullRun
  /\ exit_status = Some(0)

(* The rows of df of the organization and breach date of row i, row i      *)
(* among them                                                              *)
SameOrgAndDate(i) ==
  { j \in 1..Len(base_df) :
      /\ base_df[j].org_name = base_df[i].org_name
      /\ base_df[j].breach_date = base_df[i].breach_date }

(* The rows of df of the organization of row i *)
SameOrg(i) == { j \in 1..Len(base_df) : base_df[j].org_name = base_df[i].org_name }

(* C30: in every record of breach_history the counts of 1, 3 and 5 years   *)
(* and the total are in ascending order; is_repeat_offender and            *)
(* is_first_breach add up to 1 and is_first_breach is 1 exactly when the   *)
(* total is 0; days_since_last_breach is present exactly when the total is *)
(* positive and is then at least 1; and the total leaves out every breach  *)
(* of the same organization on the same date.                              *)
C30_PriorBreachHistory ==
  script = "41" =>
    \A i \in 1..Len(breach_history) :
      LET r == breach_history[i]
      IN  /\ 0 <= r.prior_breaches_1yr
          /\ r.prior_breaches_1yr <= r.prior_breaches_3yr
          /\ r.prior_breaches_3yr <= r.prior_breaches_5yr
          /\ r.prior_breaches_5yr <= r.prior_breaches_total
          /\ r.is_repeat_offender \in {0, 1}
          /\ r.is_first_breach \in {0, 1}
          /\ r.is_repeat_offender + r.is_first_breach = 1
          /\ r.is_first_breach = 1 <=> r.prior_breaches_total = 0
          /\ NotNull(r.days_since_last_breach) <=> r.prior_breaches_total > 0
          /\ NotNull(r.days_since_last_breach) => Val(r.days_since_last_breach) > 0
          /\ r.prior_breaches_total <=
               Cardinality(SameOrg(i)) - Cardinality(SameOrgAndDate(i))

(* Two breaches of one organization on one date, a year after an earlier   *)
(* one: each counts the earlier one only                                   *)
C30_Witness ==
  /\ script = "41"
  /\ pc = "done"
  /\ \E i, j \in 1..Len(breach_history) :
       /\ i # j
       /\ j \in SameOrgAndDate(i)
       /\ breach_history[i].prior_breaches_total = 1
       /\ breach_history[j].prior_breaches_total = 1
       /\ breach_history[i].prior_breaches_1yr = 1
       /\ breach_history[i].days_since_last_breach = Some(365)

====
